---------------------------- MODULE Spec2Model ----------------------------
(***************************************************************************)
(* A model of the Jira agent's parameter resolution pipeline:              *)
(*   src/aiParameterExtractor.ts  (AIParameterExtractor)                   *)
(*   src/informationExtractor.ts  (InformationExtractor)                   *)
(*   src/conversationManager.ts   (ConversationManager)                    *)
(*   src/index.ts                 (the jiraAgent request handler)          *)
(*                                                                         *)
(* A JavaScript string is a sequence of one-character strings, so that     *)
(* includes(), toLowerCase(), trim() and the regular expressions of the    *)
(* source are computed character by character.  A confidence is an integer *)
(* number of hundredths (0.6 is 60), or NaN.                               *)
(***************************************************************************)
EXTENDS Integers, Sequences, FiniteSets, TLC

(***************************************************************************)
(* Characters and strings.                                                 *)
(***************************************************************************)
UpperLetters == <<"A","B","C","D","E","F","G","H","I","J","K","L","M",
                  "N","O","P","Q","R","S","T","U","V","W","X","Y","Z">>
LowerLetters == <<"a","b","c","d","e","f","g","h","i","j","k","l","m",
                  "n","o","p","q","r","s","t","u","v","w","x","y","z">>
Digits == {"0","1","2","3","4","5","6","7","8","9"}

\* The regular expression class \s, for the characters the model uses.
IsSpace(c) == c \in {" ", "\t", "\n", "\r"}

UpperSet == {UpperLetters[i] : i \in 1..26}
LowerSet == {LowerLetters[i] : i \in 1..26}
LowerOf == [c \in UpperSet |->
              LowerLetters[CHOOSE i \in 1..26 : UpperLetters[i] = c]]
UpperOf == [c \in LowerSet |->
              UpperLetters[CHOOSE i \in 1..26 : LowerLetters[i] = c]]

\* String.prototype.toLowerCase on one character.
LowerChar(c) == IF c \in UpperSet THEN LowerOf[c] ELSE c

\* String.prototype.toUpperCase on one character.
UpperChar(c) == IF c \in LowerSet THEN UpperOf[c] ELSE c

\* String.prototype.toLowerCase.
ToLowerCase(s) == SubSeq([i \in 1..Len(s) |-> LowerChar(s[i])], 1, Len(s))

\* String.prototype.toUpperCase.
ToUpperCase(s) == SubSeq([i \in 1..Len(s) |-> UpperChar(s[i])], 1, Len(s))

\* Whether t occurs in s at position i (1-based).
MatchesAt(s, t, i) ==
  /\ i >= 1
  /\ i + Len(t) - 1 <= Len(s)
  /\ \A j \in 1..Len(t) : s[i + j - 1] = t[j]

\* String.prototype.includes.
Includes(s, t) ==
  LET n == Len(s)
      m == Len(t)
  IN \E i \in 1..(n - m + 1) : \A j \in 1..m : s[i + j - 1] = t[j]

\* String.prototype.trim.
Trim(s) ==
  IF \A i \in 1..Len(s) : IsSpace(s[i]) THEN <<>>
  ELSE LET a == CHOOSE i \in 1..Len(s) :
                  /\ ~IsSpace(s[i])
                  /\ \A j \in 1..(i - 1) : IsSpace(s[j])
           b == CHOOSE i \in 1..Len(s) :
                  /\ ~IsSpace(s[i])
                  /\ \A j \in (i + 1)..Len(s) : IsSpace(s[j])
       IN SubSeq(s, a, b)

\* The smallest and the largest member of a non-empty set of integers.
Min(S) == CHOOSE x \in S : \A y \in S : x <= y
Max(S) == 0 - Min({0 - x : x \in S})

(***************************************************************************)
(* The regular expressions of AIParameterExtractor.fallbackExtraction.     *)
(* A match result is [found, cap]: whether the expression matched and the  *)
(* text of its first capture group.                                        *)
(***************************************************************************)
NoMatch == [found |-> FALSE, cap |-> <<>>]
Matched(c) == [found |-> TRUE, cap |-> c]

K_title_colon == <<"t","i","t","l","e",":">>
K_issue_description_colon == <<"i","s","s","u","e"," ","d","e","s","c","r",
  "i","p","t","i","o","n",":">>
K_description_colon == <<"d","e","s","c","r","i","p","t","i","o","n",":">>
K_issue_description == <<"i","s","s","u","e"," ","d","e","s","c","r","i",
  "p","t","i","o","n">>
K_description == <<"d","e","s","c","r","i","p","t","i","o","n">>
S_TitleColon == <<"T","i","t","l","e",":">>
S_DescriptionColon == <<"D","e","s","c","r","i","p","t","i","o","n",":">>

IsQuote(c) == c \in {"'", "\""}

\* The length of the run of characters from position q on in a text of n
\* characters: it ends at the first of the positions that stop it, or with
\* the text when nothing stops it.
RunLength(stops, q, n) ==
  IF q > n THEN 0 ELSE (IF stops = {} THEN n + 1 ELSE Min(stops)) - q

\* The number of consecutive \s characters of s from position q on.
SpaceRun(s, q) ==
  RunLength({j \in q..Len(s) : ~IsSpace(s[j])}, q, Len(s))

\* The number of consecutive [^'"] characters of s from position q on.
NonQuoteRun(s, q) ==
  RunLength({j \in q..Len(s) : IsQuote(s[j])}, q, Len(s))

\* Whether the lower-case text t occurs in s at position i, ignoring the
\* case of s (the flag /i).
MatchesAtI(s, t, i) ==
  /\ i >= 1
  /\ i + Len(t) - 1 <= Len(s)
  /\ \A j \in 1..Len(t) : LowerChar(s[i + j - 1]) = t[j]

\* The leftmost match of an expression: at[p] is its match with the first
\* character at position p.
Leftmost(s, at) ==
  LET P == {p \in 1..Len(s) : at[p].found}
  IN IF P = {} THEN NoMatch ELSE at[Min(P)]

\* /label\s*['"]([^'"]+)['"]/i : the leftmost match.
MatchQuoted(s, label) ==
  LET Cut(q, n) ==
        IF q <= Len(s) /\ IsQuote(s[q]) /\ n >= 1 /\ q + 1 + n <= Len(s)
        THEN Matched(SubSeq(s, q + 1, q + n)) ELSE NoMatch
      Open(q) == Cut(q, NonQuoteRun(s, q + 1))
      At(p) ==
        IF MatchesAtI(s, label, p)
        THEN Open(p + Len(label) + SpaceRun(s, p + Len(label)))
        ELSE NoMatch
  IN Leftmost(s, [p \in 1..Len(s) |-> At(p)])

\* [^,\n]
IsPlain(c) == c \notin {",", "\n"}

\* The number of consecutive [^,\n] characters of s from position q on.
PlainRun(s, q) ==
  RunLength({j \in q..Len(s) : ~IsPlain(s[j])}, q, Len(s))

\* The lookahead (?=\s+(?:Issue Description|Description|$)) at position e.
TitleLookahead(s, e) ==
  \E w \in 1..SpaceRun(s, e) :
     \/ MatchesAtI(s, K_issue_description, e + w)
     \/ MatchesAtI(s, K_description, e + w)
     \/ e + w = Len(s) + 1

\* The anchor $ at position e.
AtEnd(s, e) == e = Len(s) + 1

\* /label\s*([^,\n]+?)FOLLOW/i, where FOLLOW is the title's lookahead or
\* the anchor $ ("end"), a condition on the position after the capture: the
\* greedy \s* gives back characters only when it must, and the lazy group
\* takes the fewest characters.
MatchLazy(s, label, follow) ==
  LET Follow(t, e) ==
        IF follow = "end" THEN AtEnd(t, e) ELSE TitleLookahead(t, e)
      Lazy(a, N) ==
        IF N = {} THEN NoMatch ELSE Matched(SubSeq(s, a, a + Min(N) - 1))
      Group(a) == Lazy(a, {n \in 1..PlainRun(s, a) : Follow(s, a + n)})
      Greedy(b, K) == IF K = {} THEN NoMatch ELSE Group(b + Max(K))
      At(p) ==
        IF MatchesAtI(s, label, p)
        THEN Greedy(p + Len(label),
                    {k \in 0..SpaceRun(s, p + Len(label)) :
                       Group(p + Len(label) + k).found})
        ELSE NoMatch
  IN Leftmost(s, [p \in 1..Len(s) |-> At(p)])

(***************************************************************************)
(* JavaScript values.  A value is [k, s]: its type and, for a string, its  *)
(* characters.  The non-string values are what JSON.parse can put where    *)
(* the code expects a string.                                              *)
(***************************************************************************)
Null == [k |-> "null", s |-> <<>>]
Undefined == [k |-> "undefined", s |-> <<>>]
Str(s) == [k |-> "string", s |-> s]
\* The number 42.
Number42 == [k |-> "number", s |-> <<"4","2">>]
\* An object such as {"a": 1}.
PlainObject == [k |-> "object", s |-> <<>>]
\* An object with an own property toString that is not a function, such as
\* {"toString": 1}: converting it to a string throws a TypeError.
UnprintableObject == [k |-> "unprintable", s |-> <<>>]
\* The function Object, which every object literal inherits as "constructor".
ObjectConstructor == [k |-> "function", s |-> <<"O","b","j","e","c","t">>]
\* Object.prototype, which every object literal inherits as "__proto__".
ObjectPrototype == [k |-> "object", s |-> <<"p","r","o","t","o">>]

\* ToBoolean, as used by !v and v || w.
Truthy(v) ==
  CASE v.k = "string" -> v.s # <<>>
    [] v.k \in {"null", "undefined"} -> FALSE
    [] OTHER -> TRUE

IsString(v) == v.k = "string"

\* Whether a template literal `${v}` evaluates without a TypeError.
Printable(v) == v.k # "unprintable"

\* The confidence NaN: what Math.min and Math.max return for a confidence
\* that is no number (a string such as "high", an object).
NaN == 1000

\* a < b on numbers: false when either side is NaN.
Less(a, b) == a # NaN /\ b # NaN /\ a < b

\* Math.max(0, Math.min(1, c)), in hundredths.
Clamp(c) ==
  IF c = NaN THEN NaN
  ELSE IF c > 100 THEN 100
  ELSE IF c < 0 THEN 0
  ELSE c

\* The confidence threshold 0.6 of applyDefaults.
DefaultThreshold == 60
\* The confidence 0.9 of a field the fallback extraction found.
FallbackConfidence == 90
\* The confidence 1.0 of a default field.
DefaultConfidence == 100

S_Bug == <<"B","u","g">>
S_Task == <<"T","a","s","k">>
S_Story == <<"S","t","o","r","y">>
S_Epic == <<"E","p","i","c">>
S_Lowest == <<"L","o","w","e","s","t">>
S_Low == <<"L","o","w">>
S_Medium == <<"M","e","d","i","u","m">>
S_High == <<"H","i","g","h">>
S_Highest == <<"H","i","g","h","e","s","t">>
S_FVDemoIssues == <<"F","V"," ","D","e","m","o"," ","(","I","s","s","u","e",
  "s",")">>
S_FVDemoProduct == <<"F","V"," ","D","e","m","o"," ","(","P","r","o","d",
  "u","c","t",")">>
S_FVEngineering == <<"F","V"," ","E","n","g","i","n","e","e","r","i","n","g">>
S_FVProduct == <<"F","V"," ","P","r","o","d","u","c","t">>

(***************************************************************************)
(* AIParameterExtractor: the fields.                                       *)
(***************************************************************************)
ParameterNames == {"title", "type", "project", "priority", "description"}

ExtractedParameter(v, c, src) ==
  [value |-> v, confidence |-> c, source |-> src]

EmptyParameter == ExtractedParameter(Null, 0, "ai_extracted")
DefaultType == ExtractedParameter(Str(S_Bug), DefaultConfidence, "default")
DefaultProject ==
  ExtractedParameter(Str(S_FVDemoIssues), DefaultConfidence, "default")
DefaultPriority ==
  ExtractedParameter(Str(S_Medium), DefaultConfidence, "default")

createEmptyExtraction ==
  [title |-> EmptyParameter, type |-> EmptyParameter,
   project |-> EmptyParameter, priority |-> EmptyParameter,
   description |-> EmptyParameter]

\* The all-default extraction without its defaults.
createDefaultExtraction_NoDefaults == createEmptyExtraction

createDefaultExtraction ==
  [title |-> EmptyParameter, type |-> DefaultType,
   project |-> DefaultProject, priority |-> DefaultPriority,
   description |-> EmptyParameter]

\* A field of the parsed completion: absent (undefined, null or no object)
\* or an object with a value and a confidence.
AbsentParam == [present |-> FALSE, value |-> Undefined, confidence |-> 0]
RawParam(v, c) == [present |-> TRUE, value |-> v, confidence |-> c]

normalizeParameter(param) ==
  IF ~param.present THEN EmptyParameter
  ELSE ExtractedParameter(
         IF Truthy(param.value) THEN param.value ELSE Null,
         Clamp(param.confidence),
         "ai_extracted")

(***************************************************************************)
(* AIParameterExtractor: the pipeline.  A function that can throw returns  *)
(* an outcome [threw, value].                                              *)
(*                                                                         *)
(* A completion is what openai.chat.completions.create gives:              *)
(*   kind "rejects"   the call throws (network, quota)                     *)
(*   kind "empty"     no choice, or an empty content                       *)
(*   kind "garbled"   a content JSON.parse rejects, or one it parses to    *)
(*                    null, or an object whose confidence Math.min cannot  *)
(*                    convert to a number                                  *)
(*   kind "json"      a content JSON.parse accepts: the five fields of the *)
(*                    parsed object                                        *)
(***************************************************************************)
Returned(v) == [threw |-> FALSE, value |-> v]
Thrown == [threw |-> TRUE, value |-> createEmptyExtraction]

parseAIResponse(c) ==
  IF c.kind = "json"
  THEN [title |-> normalizeParameter(c.title),
        type |-> normalizeParameter(c.type),
        project |-> normalizeParameter(c.project),
        priority |-> normalizeParameter(c.priority),
        description |-> normalizeParameter(c.description)]
  ELSE createEmptyExtraction

\* The first pattern of the list whose match has a non-blank capture.
FirstUseful(matches) ==
  LET I == {i \in 1..Len(matches) :
              matches[i].found /\ Trim(matches[i].cap) # <<>>}
  IN IF I = {} THEN NoMatch ELSE Matched(Trim(matches[Min(I)].cap))

titlePatterns(userInput) ==
  << MatchQuoted(userInput, K_title_colon),
     MatchLazy(userInput, K_title_colon, "lookahead") >>

descriptionPatterns(userInput) ==
  << MatchQuoted(userInput, K_issue_description_colon),
     MatchQuoted(userInput, K_description_colon),
     MatchLazy(userInput, K_issue_description_colon, "end"),
     MatchLazy(userInput, K_description_colon, "end") >>

\* fallbackExtraction without the description patterns.
fallbackExtraction_TitleOnly(userInput) ==
  LET Field(m, old) ==
        IF m.found
        THEN ExtractedParameter(Str(m.cap), FallbackConfidence,
                                "ai_extracted")
        ELSE old
  IN [createEmptyExtraction EXCEPT
        !.title = Field(FirstUseful(titlePatterns(userInput)), @)]

fallbackExtraction(userInput) ==
  LET Field(m, old) ==
        IF m.found
        THEN ExtractedParameter(Str(m.cap), FallbackConfidence,
                                "ai_extracted")
        ELSE old
  IN [createEmptyExtraction EXCEPT
        !.title = Field(FirstUseful(titlePatterns(userInput)), @),
        !.description =
           Field(FirstUseful(descriptionPatterns(userInput)), @)]

\* NeedsDefault with the comparison <= in place of <: a confidence of
\* exactly 0.6 is replaced too.
NeedsDefault_Inclusive(param) ==
  \/ ~Truthy(param.value)
  \/ param.confidence # NaN /\ param.confidence <= DefaultThreshold

NeedsDefault(param) ==
  ~Truthy(param.value) \/ Less(param.confidence, DefaultThreshold)

\* applyDefaults without the priority step.
applyDefaults_SkipsPriority(extracted) ==
  [extracted EXCEPT
     !.type = IF NeedsDefault(@) THEN DefaultType ELSE @,
     !.project = IF NeedsDefault(@) THEN DefaultProject ELSE @]

\* applyDefaults without the project step.
applyDefaults_SkipsProject(extracted) ==
  [extracted EXCEPT
     !.type = IF NeedsDefault(@) THEN DefaultType ELSE @,
     !.priority = IF NeedsDefault(@) THEN DefaultPriority ELSE @]

applyDefaults(extracted) ==
  [extracted EXCEPT
     !.type = IF NeedsDefault(@) THEN DefaultType ELSE @,
     !.project = IF NeedsDefault(@) THEN DefaultProject ELSE @,
     !.priority = IF NeedsDefault(@) THEN DefaultPriority ELSE @]

\* logExtractionResults prints `${param.value}` of every field with a value.
logExtractionResultsThrows(extracted) ==
  \E f \in ParameterNames :
     Truthy(extracted[f].value) /\ ~Printable(extracted[f].value)

\* The patch taking every field the fallback found, also over a value the
\* completion gave.
patchFromFallback_Overwrites(userInput, extracted) ==
  LET Patch(fallback) ==
        [extracted EXCEPT
           !.title = IF Truthy(fallback.title.value)
                     THEN fallback.title ELSE @,
           !.description = IF Truthy(fallback.description.value)
                           THEN fallback.description ELSE @]
  IN IF \/ Includes(userInput, S_TitleColon)
        \/ Includes(userInput, S_DescriptionColon)
     THEN Patch(fallbackExtraction(userInput))
     ELSE extracted

\* The patch step: fields the completion left without a value are taken
\* from the fallback extraction when the text carries a label.
patchFromFallback(userInput, extracted) ==
  LET Patch(fallback) ==
        [extracted EXCEPT
           !.title = IF ~Truthy(@.value) /\ Truthy(fallback.title.value)
                     THEN fallback.title ELSE @,
           !.description =
              IF ~Truthy(@.value) /\ Truthy(fallback.description.value)
              THEN fallback.description ELSE @]
  IN IF /\ \/ ~Truthy(extracted.title.value)
           \/ ~Truthy(extracted.description.value)
        /\ \/ Includes(userInput, S_TitleColon)
           \/ Includes(userInput, S_DescriptionColon)
     THEN Patch(fallbackExtraction(userInput))
     ELSE extracted

\* The try block of extractParameters.
extractParametersTry(userInput, c) ==
  LET Logged(withDefaults) ==
        IF logExtractionResultsThrows(withDefaults) THEN Thrown
        ELSE Returned(withDefaults)
  IN IF c.kind \in {"rejects", "empty"} THEN Thrown
     ELSE Logged(applyDefaults(patchFromFallback(userInput,
                                                 parseAIResponse(c))))

\* A catch block that rethrows.
extractParametersCatch_Rethrows(userInput) == Thrown

\* The catch block of extractParameters.
extractParametersCatch(userInput) ==
  LET Checked(fallbackWithDefaults) ==
        IF \/ Truthy(fallbackWithDefaults.title.value)
           \/ Truthy(fallbackWithDefaults.description.value)
        THEN Returned(fallbackWithDefaults)
        ELSE Returned(createDefaultExtraction)
  IN Checked(applyDefaults(fallbackExtraction(userInput)))

extractParameters(userInput, c) ==
  LET Caught(try) ==
        IF try.threw THEN extractParametersCatch(userInput) ELSE try
  IN Caught(extractParametersTry(userInput, c))

\* validateRequiredParameters with the comparison <= in place of <.
validateRequiredParameters_Exclusive(extracted, confidenceThreshold) ==
  LET Missing(f) ==
        \/ ~Truthy(extracted[f].value)
        \/ /\ extracted[f].confidence # NaN
           /\ extracted[f].confidence <= confidenceThreshold
      missing ==
        (IF Missing("title") THEN <<"title">> ELSE <<>>)
          \o (IF Missing("description") THEN <<"description">> ELSE <<>>)
  IN [isValid |-> Len(missing) = 0, missingRequired |-> missing]

\* The names of the required fields that are missing, in the order of the
\* two checks.
validateRequiredParameters(extracted, confidenceThreshold) ==
  LET Missing(f) ==
        \/ ~Truthy(extracted[f].value)
        \/ Less(extracted[f].confidence, confidenceThreshold)
      missing ==
        (IF Missing("title") THEN <<"title">> ELSE <<>>)
          \o (IF Missing("description") THEN <<"description">> ELSE <<>>)
  IN [isValid |-> Len(missing) = 0, missingRequired |-> missing]

validTypes == {S_Bug, S_Task, S_Story, S_Epic}
validPriorities == {S_Lowest, S_Low, S_Medium, S_High, S_Highest}

\* Array.prototype.includes on an array of strings: strict equality.
IncludesValue(strings, v) == IsString(v) /\ v.s \in strings

\* The object literal projectMapping: its own properties, in order.
projectMapping == <<
  <<<<"f","v"," ","d","e","m","o"," ","p","r","o","d","u","c","t">>,
    S_FVDemoProduct>>,
  <<<<"d","e","m","o"," ","p","r","o","d","u","c","t">>,
    S_FVDemoProduct>>,
  <<<<"f","v"," ","d","e","m","o"," ","(","p","r","o","d","u","c","t",")">>,
    S_FVDemoProduct>>,
  <<<<"d","p","d">>,
    S_FVDemoProduct>>,
  <<<<"f","v"," ","d","e","m","o"," ","i","s","s","u","e","s">>,
    S_FVDemoIssues>>,
  <<<<"d","e","m","o"," ","i","s","s","u","e","s">>,
    S_FVDemoIssues>>,
  <<<<"f","v"," ","d","e","m","o"," ","(","i","s","s","u","e","s",")">>,
    S_FVDemoIssues>>,
  <<<<"d","e","m","o">>,
    S_FVDemoIssues>>,
  <<<<"f","v","d","e","m","o">>,
    S_FVDemoIssues>>,
  <<<<"d","p","i">>,
    S_FVDemoIssues>>,
  <<<<"i","s","s","u","e","s">>,
    S_FVDemoIssues>>,
  <<<<"f","v"," ","e","n","g","i","n","e","e","r","i","n","g">>,
    S_FVEngineering>>,
  <<<<"e","n","g","i","n","e","e","r","i","n","g">>,
    S_FVEngineering>>,
  <<<<"e","n","g">>,
    S_FVEngineering>>,
  <<<<"f","v"," ","p","r","o","d","u","c","t">>,
    S_FVProduct>>,
  <<<<"p","r","o","d">>,
    S_FVProduct>>
  >>

K_constructor == <<"c","o","n","s","t","r","u","c","t","o","r">>
K_proto == <<"_","_","p","r","o","t","o","_","_">>

\* projectMapping[key]: an own property, else a property the object literal
\* inherits from Object.prototype, else undefined.  toLowerCase leaves
\* "constructor" and "__proto__" as the only inherited names a key can be.
projectMappingLookup(key) ==
  IF \E i \in 1..Len(projectMapping) : projectMapping[i][1] = key
  THEN Str(projectMapping[CHOOSE i \in 1..Len(projectMapping) :
                            projectMapping[i][1] = key][2])
  ELSE IF key = K_constructor THEN ObjectConstructor
  ELSE IF key = K_proto THEN ObjectPrototype
  ELSE Undefined

validFullNames ==
  <<S_FVDemoProduct, S_FVDemoIssues, S_FVEngineering, S_FVProduct>>

\* validFullNames.find(...): the first full name equal to the normalized
\* project, with or without its capitals.
matchingFullName(normalizedProject) ==
  LET I == {i \in 1..Len(validFullNames) :
              \/ ToLowerCase(validFullNames[i]) = normalizedProject
              \/ normalizedProject = validFullNames[i]}
  IN IF I = {} THEN Undefined ELSE Str(validFullNames[Min(I)])

\* validateType comparing without regard to case.
validateType_IgnoresCase(param) ==
  IF /\ Truthy(param.value)
     /\ ~(/\ IsString(param.value)
          /\ ToLowerCase(param.value.s) \in {ToLowerCase(t) : t \in validTypes})
  THEN DefaultType ELSE param

validateType(param) ==
  IF Truthy(param.value) /\ ~IncludesValue(validTypes, param.value)
  THEN DefaultType ELSE param

validatePriority(param) ==
  IF Truthy(param.value) /\ ~IncludesValue(validPriorities, param.value)
  THEN DefaultPriority ELSE param

\* The project step, for a project whose value is a string.
validateProject(param) ==
  LET Resolved(mappedProject, fullName) ==
        IF Truthy(mappedProject) THEN [param EXCEPT !.value = mappedProject]
        ELSE IF Truthy(fullName) THEN [param EXCEPT !.value = fullName]
        ELSE DefaultProject
      Normalized(normalizedProject) ==
        Resolved(projectMappingLookup(normalizedProject),
                 matchingFullName(normalizedProject))
  IN IF ~Truthy(param.value) THEN param
     ELSE Normalized(Trim(ToLowerCase(param.value.s)))

\* Where validateExtractedParameters throws a TypeError: a replaced type
\* or priority is printed with `${value}`, and toLowerCase is called on
\* the project value.
validateExtractedParametersThrows(extracted) ==
  \/ /\ validateType(extracted.type) # extracted.type
     /\ ~Printable(extracted.type.value)
  \/ /\ validatePriority(extracted.priority) # extracted.priority
     /\ ~Printable(extracted.priority.value)
  \/ /\ Truthy(extracted.project.value)
     /\ ~IsString(extracted.project.value)

validateExtractedParameters(extracted) ==
  IF validateExtractedParametersThrows(extracted) THEN Thrown
  ELSE Returned([extracted EXCEPT
                   !.type = validateType(@),
                   !.priority = validatePriority(@),
                   !.project = validateProject(@)])

(***************************************************************************)
(* InformationExtractor: the intent probes.                                *)
(***************************************************************************)
chatKeywords == {
  <<"h","e","l","l","o">>,
  <<"h","i">>,
  <<"h","e","l","p">>,
  <<"w","h","a","t"," ","c","a","n"," ","y","o","u"," ","d","o">>,
  <<"h","o","w"," ","d","o"," ","y","o","u"," ","w","o","r","k">>,
  <<"w","h","a","t"," ","a","r","e"," ","y","o","u","r",
    " ","c","a","p","a","b","i","l","i","t","i","e","s">>,
  <<"t","e","l","l"," ","m","e"," ","a","b","o","u","t">>,
  <<"e","x","p","l","a","i","n">>,
  <<"h","o","w"," ","t","o">>,
  <<"w","h","a","t"," ","i","s">>,
  <<"w","h","o"," ","a","r","e"," ","y","o","u">>,
  <<"w","h","a","t"," ","a","r","e"," ","y","o","u">>
  }

issueWords == {
  <<"i","s","s","u","e">>,
  <<"t","i","c","k","e","t">>,
  <<"b","u","g">>,
  <<"t","a","s","k">>,
  <<"s","t","o","r","y">>,
  <<"e","p","i","c">>
  }

searchVerbs == {
  <<"s","e","a","r","c","h">>,
  <<"f","i","n","d">>
  }

searchNouns == {
  <<"i","s","s","u","e">>,
  <<"t","i","c","k","e","t">>
  }

creationKeywords == {
  <<"c","r","e","a","t","e">>,
  <<"n","e","w">>,
  <<"m","a","k","e">>,
  <<"a","d","d">>,
  <<"r","e","p","o","r","t">>,
  <<"l","o","g">>,
  <<"s","u","b","m","i","t">>
  }

issueKeywords == {
  <<"i","s","s","u","e">>,
  <<"t","i","c","k","e","t">>,
  <<"b","u","g">>,
  <<"t","a","s","k">>,
  <<"s","t","o","r","y">>,
  <<"e","p","i","c">>,
  <<"p","r","o","b","l","e","m">>
  }

problemIndicators == {
  <<"n","o","t"," ","w","o","r","k","i","n","g">>,
  <<"b","r","o","k","e","n">>,
  <<"e","r","r","o","r">>,
  <<"i","s","s","u","e"," ","w","i","t","h">>,
  <<"p","r","o","b","l","e","m"," ","w","i","t","h">>,
  <<"u","n","a","b","l","e"," ","t","o">>,
  <<"c","a","n","'","t">>,
  <<"c","a","n","n","o","t">>,
  <<"f","a","i","l","s"," ","t","o">>,
  <<"d","o","e","s","n","'","t"," ","w","o","r","k">>,
  <<"b","u","g"," ","i","n">>,
  <<"i","s","s","u","e"," ","i","n">>,
  <<"p","r","o","b","l","e","m"," ","i","n">>
  }

featureIndicators == {
  <<"n","e","e","d">>,
  <<"w","a","n","t">>,
  <<"w","o","u","l","d"," ","l","i","k","e">>,
  <<"s","h","o","u","l","d"," ","h","a","v","e">>,
  <<"m","i","s","s","i","n","g">>,
  <<"a","d","d"," ","f","e","a","t","u","r","e">>,
  <<"n","e","w"," ","f","e","a","t","u","r","e">>,
  <<"e","n","h","a","n","c","e","m","e","n","t">>,
  <<"i","m","p","r","o","v","e","m","e","n","t">>
  }

searchQueryWords == <<
  <<"s","e","a","r","c","h">>,
  <<"f","i","n","d">>,
  <<"f","o","r">>,
  <<"i","s","s","u","e","s">>,
  <<"i","s","s","u","e">>,
  <<"t","i","c","k","e","t","s">>,
  <<"t","i","c","k","e","t">>
  >>

\* keywords.some(keyword => lowerInput.includes(keyword))
IncludesAny(lowerInput, keywords) ==
  \E keyword \in keywords : Includes(lowerInput, keyword)

detectsChatIntent(userInput) ==
  LET lowerInput == ToLowerCase(userInput)
      hasExplicitChatKeyword == IncludesAny(lowerInput, chatKeywords)
      isQuestion == /\ Includes(lowerInput, <<"?">>)
                    /\ ~IncludesAny(lowerInput, issueWords)
  IN hasExplicitChatKeyword \/ isQuestion

detectsIssuePattern(userInput) ==
  LET lowerInput == ToLowerCase(userInput)
      hasTitleDescFormat ==
        /\ Includes(lowerInput, K_title_colon)
        /\ \/ Includes(lowerInput, K_description_colon)
           \/ Includes(lowerInput, K_issue_description_colon)
      hasProblemIndicator == IncludesAny(lowerInput, problemIndicators)
      hasFeatureIndicator == IncludesAny(lowerInput, featureIndicators)
  IN hasTitleDescFormat \/ hasProblemIndicator \/ hasFeatureIndicator

detectsIssueCreationIntent(userInput) ==
  LET lowerInput == ToLowerCase(userInput)
      hasCreationKeyword == IncludesAny(lowerInput, creationKeywords)
      hasIssueKeyword == IncludesAny(lowerInput, issueKeywords)
      hasIssuePattern == detectsIssuePattern(userInput)
  IN (hasCreationKeyword /\ hasIssueKeyword) \/ hasIssuePattern

detectsSearchIntent(userInput) ==
  LET lowerInput == ToLowerCase(userInput)
  IN /\ IncludesAny(lowerInput, searchVerbs)
     /\ IncludesAny(lowerInput, searchNouns)
     /\ ~detectsIssueCreationIntent(userInput)

\* The length of the match of /search|find|for|issues?|tickets?/i at
\* position i of s, 0 when there is none: the first alternative that
\* matches, the optional s taken when it is there.
SearchWordAt(s, i) ==
  LET I == {k \in 1..Len(searchQueryWords) :
              MatchesAtI(s, searchQueryWords[k], i)}
  IN IF I = {} THEN 0 ELSE Len(searchQueryWords[Min(I)])

\* s.replace(/search|find|for|issues?|tickets?/gi, '') from position i on.
RECURSIVE StripSearchWords(_, _)
StripSearchWords(s, i) ==
  IF i > Len(s) THEN <<>>
  ELSE IF SearchWordAt(s, i) > 0
       THEN StripSearchWords(s, i + SearchWordAt(s, i))
  ELSE <<s[i]>> \o StripSearchWords(s, i + 1)

extractSearchQuery(userInput) == Trim(StripSearchWords(userInput, 1))

(***************************************************************************)
(* InformationExtractor.extractExplicitInformation and its regular         *)
(* expressions.                                                            *)
(***************************************************************************)
IsLetter(c) == c \in UpperSet \/ c \in LowerSet

\* [A-Z0-9] under the flag /i.
IsAlnum(c) == IsLetter(c) \/ c \in Digits

\* \w
IsWordChar(c) == IsAlnum(c) \/ c = "_"

\* The number of consecutive [A-Z0-9] characters of s from position q on.
AlnumRun(s, q) ==
  RunLength({j \in q..Len(s) : ~IsAlnum(s[j])}, q, Len(s))

\* The number of consecutive \w characters of s from position q on.
WordRun(s, q) ==
  RunLength({j \in q..Len(s) : ~IsWordChar(s[j])}, q, Len(s))

\* \b at position i: between a \w character and a character that is none.
WordBoundary(s, i) ==
  (i > 1 /\ i - 1 <= Len(s) /\ IsWordChar(s[i - 1]))
    # (i <= Len(s) /\ IsWordChar(s[i]))

\* The first text of the list that occurs in s at position i (the order of
\* an alternation), <<>> when none does.
FirstAt(s, words, i) ==
  LET I == {k \in 1..Len(words) : MatchesAtI(s, words[k], i)}
  IN IF I = {} THEN <<>> ELSE words[Min(I)]

K_project == <<"p","r","o","j","e","c","t">>
K_in == <<"i","n">>
K_priority == <<"p","r","i","o","r","i","t","y">>

\* /(?:project|in)\s+([A-Z]+(?:[A-Z0-9]*)?)/i
projectPattern1(s) ==
  LET Key(a) ==
        IF a <= Len(s) /\ IsLetter(s[a])
        THEN Matched(SubSeq(s, a, a + AlnumRun(s, a) - 1)) ELSE NoMatch
      After(e) == IF SpaceRun(s, e) >= 1 THEN Key(e + SpaceRun(s, e))
                  ELSE NoMatch
      Word(p, w) == IF w = <<>> THEN NoMatch ELSE After(p + Len(w))
      At(p) == Word(p, FirstAt(s, <<K_project, K_in>>, p))
  IN Leftmost(s, [p \in 1..Len(s) |-> At(p)])

\* /([A-Z]+(?:[A-Z0-9]*)?)\s+project/i
projectPattern2(s) ==
  LET Key(p, e) ==
        IF /\ SpaceRun(s, e) >= 1
           /\ MatchesAtI(s, K_project, e + SpaceRun(s, e))
        THEN Matched(SubSeq(s, p, e - 1)) ELSE NoMatch
      At(p) == IF IsLetter(s[p]) THEN Key(p, p + AlnumRun(s, p))
               ELSE NoMatch
  IN Leftmost(s, [p \in 1..Len(s) |-> At(p)])

\* /(?:verbs)\s+(?:fillers\s+)?(\w+)/i, where fillers is a list of words
\* (empty when the expression has no optional group): the position of the
\* capture when the verb is at p, 0 when the expression does not match there.
CaptureAfterVerb(s, verbs, fillers, p) ==
  LET Pick(a, filler, b) ==
        IF filler # <<>> /\ b > a + Len(filler) /\ WordRun(s, b) >= 1
        THEN b
        ELSE IF WordRun(s, a) >= 1 THEN a
        ELSE 0
      Filler(a, filler) ==
        Pick(a, filler, a + Len(filler) + SpaceRun(s, a + Len(filler)))
      After(e) ==
        IF SpaceRun(s, e) = 0 THEN 0
        ELSE Filler(e + SpaceRun(s, e),
                    FirstAt(s, fillers, e + SpaceRun(s, e)))
      Verb(verb) == IF verb = <<>> THEN 0 ELSE After(p + Len(verb))
  IN Verb(FirstAt(s, verbs, p))

MatchAfterVerb(s, verbs, fillers) ==
  LET Word(c) == IF c > 0 THEN Matched(SubSeq(s, c, c + WordRun(s, c) - 1))
                 ELSE NoMatch
      At(p) == Word(CaptureAfterVerb(s, verbs, fillers, p))
  IN Leftmost(s, [p \in 1..Len(s) |-> At(p)])

\* /\b(words)\b/i, and /\b(words)\s+priority\b/i when withPriority.
MatchWholeWord(s, words, withPriority) ==
  LET Priority(a) ==
        /\ MatchesAtI(s, K_priority, a)
        /\ WordBoundary(s, a + Len(K_priority))
      Word(p, e) ==
        IF /\ e > p
           /\ WordBoundary(s, p)
           /\ IF withPriority
              THEN SpaceRun(s, e) >= 1 /\ Priority(e + SpaceRun(s, e))
              ELSE WordBoundary(s, e)
        THEN Matched(SubSeq(s, p, e - 1)) ELSE NoMatch
      At(p) == Word(p, p + Len(FirstAt(s, words, p)))
  IN Leftmost(s, [p \in 1..Len(s) |-> At(p)])

\* /"([^"]+)"/
quotedMatch(s) ==
  LET Cut(p, close) ==
        IF close = {} THEN NoMatch
        ELSE Matched(SubSeq(s, p + 1, Min(close) - 1))
      At(p) ==
        IF s[p] = "\"" /\ p + 1 <= Len(s) /\ s[p + 1] # "\""
        THEN Cut(p, {q \in (p + 2)..Len(s) : s[q] = "\""})
        ELSE NoMatch
  IN Leftmost(s, [p \in 1..Len(s) |-> At(p)])

\* type.charAt(0).toUpperCase() + type.slice(1)
Capitalize(s) ==
  IF s = <<>> THEN <<>> ELSE <<UpperChar(s[1])>> \o SubSeq(s, 2, Len(s))

normalizeIssueType(type) ==
  LET Normalized(normalized) ==
        CASE normalized = <<"b","u","g">> -> S_Bug
          [] normalized = <<"t","a","s","k">> -> S_Task
          [] normalized = <<"s","t","o","r","y">> -> S_Story
          [] normalized = <<"e","p","i","c">> -> S_Epic
          [] OTHER -> Capitalize(type)
  IN Normalized(ToLowerCase(type))

normalizePriority(priority) ==
  LET Normalized(normalized) ==
        CASE normalized \in {<<"l","o","w","e","s","t">>,
                             <<"v","e","r","y"," ","l","o","w">>,
                             <<"t","r","i","v","i","a","l">>} -> S_Lowest
          [] normalized \in {<<"l","o","w">>,
                             <<"m","i","n","o","r">>} -> S_Low
          [] normalized \in {<<"m","e","d","i","u","m">>,
                             <<"n","o","r","m","a","l">>,
                             <<"s","t","a","n","d","a","r","d">>} -> S_Medium
          [] normalized \in {<<"h","i","g","h">>,
                             <<"i","m","p","o","r","t","a","n","t">>,
                             <<"u","r","g","e","n","t">>,
                             <<"m","a","j","o","r">>} -> S_High
          [] normalized \in {<<"h","i","g","h","e","s","t">>,
                             <<"c","r","i","t","i","c","a","l">>,
                             <<"b","l","o","c","k","e","r">>,
                             <<"s","e","v","e","r","e">>} -> S_Highest
          [] OTHER -> Capitalize(priority)
  IN Normalized(ToLowerCase(priority))

\* IssueData: a field that is not set is undefined.
EmptyIssueData ==
  [project |-> Undefined, issueType |-> Undefined, title |-> Undefined,
   description |-> Undefined, priority |-> Undefined]

\* The project family: the first pattern that matches with a key of at
\* most 10 characters.
MaxProjectKeyLength == 10

explicitProject(userInput) ==
  LET First(m) ==
        LET I == {i \in 1..Len(m) :
                    m[i].found /\ Len(m[i].cap) <= MaxProjectKeyLength}
        IN IF I = {} THEN Undefined
           ELSE Str(ToUpperCase(m[Min(I)].cap))
  IN First(<<projectPattern1(userInput), projectPattern2(userInput)>>)

typePatterns(userInput) ==
  << MatchAfterVerb(userInput, <<<<"c","r","e","a","t","e">>>>,
                    <<<<"a">>>>),
     MatchAfterVerb(userInput, <<<<"n","e","w">>>>, <<>>),
     MatchAfterVerb(userInput,
                    <<<<"r","e","p","o","r","t">>,
                      <<"l","o","g">>>>,
                    <<<<"a">>>>) >>

typeWords == {<<"b","u","g">>, <<"t","a","s","k">>, <<"s","t","o","r","y">>, <<"e","p","i","c">>, <<"i","s","s","u","e">>, <<"t","i","c","k","e","t">>}
genericTypeWords == {<<"i","s","s","u","e">>, <<"t","i","c","k","e","t">>}

\* The type family: the loop ends at the first pattern whose captured word
\* is one of typeWords; a generic word gives no type.
explicitIssueType(userInput) ==
  LET Type(type) ==
        IF type \in genericTypeWords THEN Undefined
        ELSE Str(normalizeIssueType(type))
      First(m) ==
        LET I == {i \in 1..Len(m) :
                    m[i].found /\ ToLowerCase(m[i].cap) \in typeWords}
        IN IF I = {} THEN Undefined ELSE Type(ToLowerCase(m[Min(I)].cap))
  IN First(typePatterns(userInput))

priorityPatterns(userInput) ==
  << MatchWholeWord(userInput,
                    <<<<"l","o","w">>, <<"m","e","d","i","u","m">>,
                      <<"h","i","g","h">>,
                      <<"c","r","i","t","i","c","a","l">>>>,
                    TRUE),
     MatchAfterVerb(userInput, <<K_priority>>,
                    <<<<"i","s">>, <<"o","f">>>>),
     MatchWholeWord(userInput,
                    <<<<"u","r","g","e","n","t">>,
                      <<"c","r","i","t","i","c","a","l">>,
                      <<"i","m","p","o","r","t","a","n","t">>>>,
                    FALSE) >>

\* The priority family: the first pattern that matches.
explicitPriority(userInput) ==
  LET First(m) ==
        LET I == {i \in 1..Len(m) : m[i].found}
        IN IF I = {} THEN Undefined
           ELSE Str(normalizePriority(ToLowerCase(m[Min(I)].cap)))
  IN First(priorityPatterns(userInput))

extractExplicitInformation(userInput) ==
  LET Title(m) == IF m.found THEN Str(m.cap) ELSE Undefined
  IN [project |-> explicitProject(userInput),
      issueType |-> explicitIssueType(userInput),
      title |-> Title(quotedMatch(userInput)),
      description |-> Undefined,
      priority |-> explicitPriority(userInput)]

(***************************************************************************)
(* InformationExtractor: what it reads from the answer to one question.    *)
(***************************************************************************)
\* for (const [key, value] of Object.entries(mapping)): the value of the
\* first key, in the order of the table, the input includes; Null if none.
FirstIncluded(lowerInput, mapping) ==
  LET I == {i \in 1..Len(mapping) : Includes(lowerInput, mapping[i].key)}
  IN IF I = {} THEN Null ELSE Str(mapping[Min(I)].value)

\* The projectMapping of extractProjectFromResponse, in its order.
responseProjectMapping == <<
  [key |-> <<"d","e","m","o">>,
   value |-> S_FVDemoIssues],
  [key |-> <<"f","v","d","e","m","o">>,
   value |-> S_FVDemoIssues],
  [key |-> <<"f","v"," ","d","e","m","o">>,
   value |-> S_FVDemoIssues],
  [key |-> <<"d","e","m","o"," ","i","s","s","u","e","s">>,
   value |-> S_FVDemoIssues],
  [key |-> <<"i","s","s","u","e","s">>,
   value |-> S_FVDemoIssues],
  [key |-> <<"d","p","i">>,
   value |-> S_FVDemoIssues],
  [key |-> <<"d","e","m","o"," ","p","r","o","d","u","c","t">>,
   value |-> S_FVDemoProduct],
  [key |-> <<"f","v"," ","d","e","m","o"," ","p","r","o","d","u","c","t">>,
   value |-> S_FVDemoProduct],
  [key |-> <<"p","r","o","d","u","c","t"," ","d","e","m","o">>,
   value |-> S_FVDemoProduct],
  [key |-> <<"d","p","d">>,
   value |-> S_FVDemoProduct],
  [key |-> <<"e","n","g","i","n","e","e","r","i","n","g">>,
   value |-> S_FVEngineering],
  [key |-> <<"e","n","g">>,
   value |-> S_FVEngineering],
  [key |-> <<"f","v"," ","e","n","g","i","n","e","e","r","i","n","g">>,
   value |-> S_FVEngineering],
  [key |-> <<"f","v"," ","e","n","g">>,
   value |-> S_FVEngineering],
  [key |-> <<"p","r","o","d","u","c","t">>,
   value |-> S_FVProduct],
  [key |-> <<"f","v"," ","p","r","o","d","u","c","t">>,
   value |-> S_FVProduct],
  [key |-> <<"p","r","o","d">>,
   value |-> S_FVProduct] >>

\* The legacy project codes.
legacyMapping == <<
  [key |-> <<"D","E","M","O">>,
   value |-> S_FVDemoIssues],
  [key |-> <<"D","P","I">>,
   value |-> S_FVDemoIssues],
  [key |-> <<"D","P","D">>,
   value |-> S_FVDemoProduct],
  [key |-> <<"E","N","G">>,
   value |-> S_FVEngineering],
  [key |-> <<"P","R","O","D">>,
   value |-> S_FVProduct] >>

fullProjectNames ==
  <<S_FVProduct, S_FVEngineering, S_FVDemoIssues, S_FVDemoProduct>>

\* userInput.match(/\b([A-Z]+[A-Z0-9]*)\b/): the leftmost run of capitals
\* and digits that starts with a capital at a word boundary and ends at
\* one.
MatchProjectKey(userInput) ==
  LET IsKeyChar(c) == c \in UpperSet \/ c \in Digits
      End(i) == i + RunLength({j \in i..Len(userInput) :
                                 ~IsKeyChar(userInput[j])}, i, Len(userInput))
      At(i) ==
        /\ userInput[i] \in UpperSet
        /\ (i = 1 \/ ~IsWordChar(userInput[i - 1]))
        /\ (End(i) > Len(userInput) \/ ~IsWordChar(userInput[End(i)]))
      I == {i \in 1..Len(userInput) : At(i)}
  IN IF I = {} THEN NoMatch
     ELSE Matched(SubSeq(userInput, Min(I), End(Min(I)) - 1))

extractProjectFromResponse(userInput) ==
  LET Legacy(match) ==
        LET I == {i \in 1..Len(legacyMapping) : legacyMapping[i].key = match}
        IN IF I = {} THEN Str(match) ELSE Str(legacyMapping[Min(I)].value)
      Keyed(projectMatch) ==
        IF projectMatch.found THEN Legacy(ToUpperCase(projectMatch.cap))
        ELSE Null
      Named(lowerInput) ==
        LET I == {i \in 1..Len(fullProjectNames) :
                    Includes(lowerInput, ToLowerCase(fullProjectNames[i]))}
            Has(t) == Includes(lowerInput, t)
        IN IF I # {} THEN Str(fullProjectNames[Min(I)])
           ELSE IF Has(<<"f","v"," ","p","r","o","d","u","c","t">>)
                   \/ Has(<<"f","a","n","v","o","i","c","e"," ","p","r","o","d","u","c","t">>)
           THEN Str(S_FVProduct)
           ELSE IF Has(<<"f","v"," ","e","n","g","i","n","e","e","r","i","n","g">>)
                   \/ Has(<<"f","a","n","v","o","i","c","e"," ","e","n","g","i","n","e","e","r","i","n","g">>)
           THEN Str(S_FVEngineering)
           ELSE IF Has(<<"f","v"," ","d","e","m","o">>) /\ Has(<<"p","r","o","d","u","c","t">>)
           THEN Str(S_FVDemoProduct)
           ELSE IF Has(<<"f","v"," ","d","e","m","o">>)
                   /\ (Has(<<"i","s","s","u","e","s">>) \/ ~Has(<<"p","r","o","d","u","c","t">>))
           THEN Str(S_FVDemoIssues)
           ELSE Keyed(MatchProjectKey(userInput))
      Mapped(lowerInput, mapped) ==
        IF mapped # Null THEN mapped ELSE Named(lowerInput)
      Lowered(lowerInput) ==
        Mapped(lowerInput, FirstIncluded(lowerInput, responseProjectMapping))
  IN Lowered(Trim(ToLowerCase(userInput)))

\* The typeMapping of extractIssueTypeFromResponse, in its order.
typeMapping == <<
  [key |-> <<"b","u","g">>,
   value |-> S_Bug],
  [key |-> <<"t","a","s","k">>,
   value |-> S_Task],
  [key |-> <<"s","t","o","r","y">>,
   value |-> S_Story],
  [key |-> <<"e","p","i","c">>,
   value |-> S_Epic] >>

extractIssueTypeFromResponse(userInput) ==
  FirstIncluded(ToLowerCase(userInput), typeMapping)

\* The priorityMapping of extractPriorityFromResponse, in its order.
priorityMapping == <<
  [key |-> <<"l","o","w","e","s","t">>,
   value |-> S_Lowest],
  [key |-> <<"v","e","r","y"," ","l","o","w">>,
   value |-> S_Lowest],
  [key |-> <<"t","r","i","v","i","a","l">>,
   value |-> S_Lowest],
  [key |-> <<"l","o","w">>,
   value |-> S_Low],
  [key |-> <<"m","i","n","o","r">>,
   value |-> S_Low],
  [key |-> <<"m","e","d","i","u","m">>,
   value |-> S_Medium],
  [key |-> <<"n","o","r","m","a","l">>,
   value |-> S_Medium],
  [key |-> <<"s","t","a","n","d","a","r","d">>,
   value |-> S_Medium],
  [key |-> <<"h","i","g","h">>,
   value |-> S_High],
  [key |-> <<"i","m","p","o","r","t","a","n","t">>,
   value |-> S_High],
  [key |-> <<"u","r","g","e","n","t">>,
   value |-> S_High],
  [key |-> <<"m","a","j","o","r">>,
   value |-> S_High],
  [key |-> <<"h","i","g","h","e","s","t">>,
   value |-> S_Highest],
  [key |-> <<"c","r","i","t","i","c","a","l">>,
   value |-> S_Highest],
  [key |-> <<"b","l","o","c","k","e","r">>,
   value |-> S_Highest],
  [key |-> <<"s","e","v","e","r","e">>,
   value |-> S_Highest] >>

extractPriorityFromResponse(userInput) ==
  FirstIncluded(ToLowerCase(userInput), priorityMapping)

\* The least length of a title, exclusive: userInput.trim().length > 5.
MinTitleLength == 5

extractTitleFromResponse(userInput) ==
  IF Len(Trim(userInput)) > MinTitleLength THEN Str(Trim(userInput))
  ELSE Null

extractDescriptionFromResponse(userInput) ==
  IF Trim(ToLowerCase(userInput)) \in
       {<<"s","k","i","p">>, <<"n","o","n","e">>,
        <<"n","o"," ","d","e","s","c","r","i","p","t","i","o","n">>}
  THEN Str(<<>>)
  ELSE Str(Trim(userInput))

(***************************************************************************)
(* ConversationState (src/index.ts creates one for each request).          *)
(***************************************************************************)
NoExtractedParameters == [set |-> FALSE, value |-> createEmptyExtraction]
SomeExtractedParameters(e) == [set |-> TRUE, value |-> e]

InitialState ==
  [isCreatingIssue |-> FALSE,
   issueData |-> EmptyIssueData,
   currentStep |-> "DETECTING_INTENT",
   hasAskedFor |-> {},
   extractedParameters |-> NoExtractedParameters,
   pendingValidation |-> {}]

\* A result without a message.
NoMessage == "(undefined)"

Result(action, message, searchQuery) ==
  [action |-> action, message |-> message, searchQuery |-> searchQuery]

(***************************************************************************)
(* IssueCreationFlow.  Its file is not among the sources; it is modelled   *)
(* from the specification, sections 4.4 (3) and the resetState sentence.   *)
(***************************************************************************)
\* resetState: every field back to its initial value.
resetState(state) == InitialState

\* The fields of the traditional flow, in the order they are asked, with
\* the IssueData key and the step of each.
askOrder ==
  << [field |-> "project", key |-> "project", step |-> "ASKING_PROJECT"],
     [field |-> "type", key |-> "issueType", step |-> "ASKING_TYPE"],
     [field |-> "title", key |-> "title", step |-> "ASKING_TITLE"],
     [field |-> "description", key |-> "description",
      step |-> "ASKING_DESCRIPTION"],
     [field |-> "priority", key |-> "priority", step |-> "ASKING_PRIORITY"] >>

\* startIssueCreation: issueData is seeded with what the lexical extractor
\* finds in the utterance.
startIssueCreation(userInput, state) ==
  LET Seeded(found) ==
        [state EXCEPT
           !.isCreatingIssue = TRUE,
           !.issueData = [k \in DOMAIN EmptyIssueData |->
                            IF found[k] # Undefined THEN found[k] ELSE @[k]]]
  IN Seeded(extractExplicitInformation(userInput))

\* determineNextStep: the first field of askOrder issueData does not hold,
\* the confirmation when it holds all five.
determineNextStep(state) ==
  LET I == {i \in 1..Len(askOrder) :
              state.issueData[askOrder[i].key] = Undefined}
  IN IF I = {} THEN "CONFIRMING_DETAILS" ELSE askOrder[Min(I)].step

\* getQuestionForStep: the question of a step.
getQuestionForStep(step) == "question for " \o step

\* checkForCancellation: whether the utterance holds a phrase of
\* cancellation.
cancellationPhrases ==
  {<<"c","a","n","c","e","l">>, <<"s","t","o","p">>,
   <<"n","e","v","e","r","m","i","n","d">>, <<"n","e","v","e","r"," ","m","i","n","d">>}

checkForCancellation(userInput) ==
  IncludesAny(ToLowerCase(userInput), cancellationPhrases)

\* The tokens of the confirmation.
affirmativeTokens ==
  {<<"y","e","s">>, <<"c","o","n","f","i","r","m">>, <<"c","r","e","a","t","e">>}
negativeTokens == {<<"n","o">>, <<"c","a","n","c","e","l">>}

S_confirmed == <<"c","o","n","f","i","r","m","e","d">>
S_cancelled == <<"c","a","n","c","e","l","l","e","d">>

\* What processResponse returns, with the state as it leaves it.
FlowResponse(success, value, errorMessage, state) ==
  [success |-> success, value |-> value, errorMessage |-> errorMessage,
   state |-> state]

\* processResponse: the answer is read as the field the step asks for and
\* stored; an answer that does not have the shape of the field is refused
\* with a message.  At the confirmation it gives 'confirmed' or
\* 'cancelled'.  A step that asks for nothing stores nothing.
processResponse(userInput, step, state) ==
  LET Stored(key, v) ==
        IF v = Null
        THEN FlowResponse(FALSE, Null, "I did not understand the " \o key, state)
        ELSE FlowResponse(TRUE, v, NoMessage,
                       [state EXCEPT !.issueData[key] = v])
      Confirmed(lowerInput) ==
        IF IncludesAny(lowerInput, affirmativeTokens)
        THEN FlowResponse(TRUE, Str(S_confirmed), NoMessage, state)
        ELSE IF IncludesAny(lowerInput, negativeTokens)
        THEN FlowResponse(TRUE, Str(S_cancelled), NoMessage, state)
        ELSE FlowResponse(FALSE, Null,
                       "Please answer 'yes' to create the issue or 'no' to cancel.",
                       state)
  IN CASE step = "ASKING_PROJECT" ->
            Stored("project", extractProjectFromResponse(userInput))
       [] step = "ASKING_TYPE" ->
            Stored("issueType", extractIssueTypeFromResponse(userInput))
       [] step = "ASKING_TITLE" ->
            Stored("title", extractTitleFromResponse(userInput))
       [] step = "ASKING_DESCRIPTION" ->
            Stored("description", extractDescriptionFromResponse(userInput))
       [] step = "ASKING_PRIORITY" ->
            Stored("priority", extractPriorityFromResponse(userInput))
       [] step = "CONFIRMING_DETAILS" -> Confirmed(ToLowerCase(userInput))
       [] OTHER -> FlowResponse(TRUE, Null, NoMessage, state)

(***************************************************************************)
(* ConversationManager.                                                    *)
(***************************************************************************)
\* The confidence threshold 0.6 of the required-field check.
RequiredThreshold == 60

\* missingRequired.join(' and ')
RECURSIVE JoinAnd(_)
JoinAnd(names) ==
  IF Len(names) = 0 THEN ""
  ELSE IF Len(names) = 1 THEN names[1]
  ELSE names[1] \o " and " \o JoinAnd(SubSeq(names, 2, Len(names)))

\* The message with the names joined by a comma.
MissingMessage_CommaJoined(missingRequired) ==
  "Missing required information: "
    \o (IF Len(missingRequired) = 2
        THEN missingRequired[1] \o ", " \o missingRequired[2]
        ELSE JoinAnd(missingRequired))
    \o ". Please provide both a title and description in your request."

\* The message of the error action (without its leading emoji).
MissingMessage(missingRequired) ==
  "Missing required information: " \o JoinAnd(missingRequired)
    \o ". Please provide both a title and description in your request."

\* convertExtractedToIssueData copying only what the completion gave, not
\* the defaults.
convertExtractedToIssueData_SkipsDefaults(extracted, state) ==
  LET Copy(param, old) ==
        IF Truthy(param.value) /\ param.source # "default"
        THEN param.value ELSE old
  IN [state EXCEPT
        !.issueData =
           [title |-> Copy(extracted.title, @.title),
            issueType |-> Copy(extracted.type, @.issueType),
            project |-> Copy(extracted.project, @.project),
            priority |-> Copy(extracted.priority, @.priority),
            description |-> Copy(extracted.description, @.description)]]

convertExtractedToIssueData(extracted, state) ==
  LET Copy(param, old) == IF Truthy(param.value) THEN param.value ELSE old
  IN [state EXCEPT
        !.issueData =
           [title |-> Copy(extracted.title, @.title),
            issueType |-> Copy(extracted.type, @.issueType),
            project |-> Copy(extracted.project, @.project),
            priority |-> Copy(extracted.priority, @.priority),
            description |-> Copy(extracted.description, @.description)]]

\* markStepAsAsked recording nothing.
markStepAsAsked_Forgets(step, state) == state

markStepAsAsked(step, state) ==
  LET I == {i \in 1..Len(askOrder) : askOrder[i].step = step}
  IN IF I = {} THEN state
     ELSE [state EXCEPT !.hasAskedFor = @ \cup {askOrder[Min(I)].field}]

\* A turn's outcome: the state afterwards, the result returned, the number
\* of calls of the completion capability, and what the extractor returned.
Outcome(state, result, calls, extracted, validated) ==
  [state |-> state, result |-> result, completionCalls |-> calls,
   extracted |-> extracted, validated |-> validated]

NotRun == [ran |-> FALSE, threw |-> FALSE, value |-> createEmptyExtraction]
Ran(outcome) ==
  [ran |-> TRUE, threw |-> outcome.threw, value |-> outcome.value]

\* A catch block that throws again what it caught.
startTraditionalFlow_Rethrows(userInput, state) ==
  [state |-> state, result |-> Result("throws", "TypeError", Undefined)]

\* The catch block of startIssueCreationWithAI: the traditional flow.
startTraditionalFlow(userInput, state) ==
  LET Asked(started, nextStep) ==
        [state |-> markStepAsAsked(nextStep,
                                   [started EXCEPT !.currentStep = nextStep]),
         result |-> Result("continue", getQuestionForStep(nextStep),
                           Undefined)]
      Started(started) == Asked(started, determineNextStep(started))
  IN Started(startIssueCreation(userInput, state))

\* startIssueCreationWithAI without the required-field check.
startIssueCreationWithAI_SkipsCheck(userInput, state, c) ==
  LET entered == [state EXCEPT !.isCreatingIssue = TRUE,
                               !.currentStep = "AI_EXTRACTING"]
      Caught(traditional, extracted, validated) ==
        Outcome(traditional.state, traditional.result, 1,
                extracted, validated)
      Validated(extracted, validated) ==
        IF extracted.threw \/ validated.threw
        THEN Caught(startTraditionalFlow(userInput, entered),
                    extracted, validated)
        ELSE Outcome([convertExtractedToIssueData(validated.value, entered)
                        EXCEPT !.extractedParameters =
                                 SomeExtractedParameters(validated.value)],
                     Result("create_issue", NoMessage, Undefined),
                     1, extracted, validated)
      Extracted(extracted) ==
        Validated(Ran(extracted),
                  IF extracted.threw THEN NotRun
                  ELSE Ran(validateExtractedParameters(extracted.value)))
  IN Extracted(extractParameters(userInput, c))

startIssueCreationWithAI(userInput, state, c) ==
  LET entered == [state EXCEPT !.isCreatingIssue = TRUE,
                               !.currentStep = "AI_EXTRACTING"]
      Caught(traditional, extracted, validated) ==
        Outcome(traditional.state, traditional.result, 1,
                extracted, validated)
      Checked(extracted, validated, validation) ==
        IF ~validation.isValid
        THEN Outcome(resetState(entered),
                     Result("error",
                            MissingMessage(validation.missingRequired),
                            Undefined),
                     1, extracted, validated)
        ELSE Outcome([convertExtractedToIssueData(validated.value, entered)
                        EXCEPT !.extractedParameters =
                                 SomeExtractedParameters(validated.value)],
                     Result("create_issue", NoMessage, Undefined),
                     1, extracted, validated)
      Validated(extracted, validated) ==
        IF extracted.threw \/ validated.threw
        THEN Caught(startTraditionalFlow(userInput, entered),
                    extracted, validated)
        ELSE Checked(extracted, validated,
                     validateRequiredParameters(validated.value,
                                                RequiredThreshold))
      Extracted(extracted) ==
        Validated(Ran(extracted),
                  IF extracted.threw THEN NotRun
                  ELSE Ran(validateExtractedParameters(extracted.value)))
  IN Extracted(extractParameters(userInput, c))

CancelledMessage ==
  "No problem! Issue creation has been cancelled. Let me know if you need help with anything else."
ConfirmMessage ==
  "Please confirm by saying 'yes' to create the issue, or 'no' to cancel."

\* handleIssueCreationFlow after its cancellation check: the confirmation
\* of an extraction, else processResponse and the next step.
answerIssueCreationFlow(userInput, state) ==
  LET Turned(st, action, message) ==
        Outcome(st, Result(action, message, Undefined), 0, NotRun, NotRun)
      Asked(st, nextStep) ==
        IF nextStep = "CONFIRMING_DETAILS"
        THEN Turned([st EXCEPT !.currentStep = nextStep], "continue",
                    getQuestionForStep(nextStep))
        ELSE IF nextStep = "READY_TO_CREATE"
        THEN Turned(st, "create_issue", NoMessage)
        ELSE Turned(markStepAsAsked(nextStep,
                                    [st EXCEPT !.currentStep = nextStep]),
                    "continue", getQuestionForStep(nextStep))
      Processed(result) ==
        IF ~result.success
        THEN Turned(result.state, "continue",
                    IF result.errorMessage \in {NoMessage, ""}
                    THEN "Please try again." ELSE result.errorMessage)
        ELSE IF /\ result.state.currentStep = "CONFIRMING_DETAILS"
                /\ result.value = Str(S_confirmed)
        THEN Turned(result.state, "create_issue", NoMessage)
        ELSE IF /\ result.state.currentStep = "CONFIRMING_DETAILS"
                /\ result.value = Str(S_cancelled)
        THEN Turned(resetState(result.state), "cancel", CancelledMessage)
        ELSE Asked(result.state, determineNextStep(result.state))
      Confirming(lowerInput) ==
        IF IncludesAny(lowerInput, affirmativeTokens)
        THEN Turned(state, "create_issue", NoMessage)
        ELSE IF IncludesAny(lowerInput, negativeTokens)
        THEN Turned(resetState(state), "cancel", CancelledMessage)
        ELSE Turned(state, "continue", ConfirmMessage)
  IN IF /\ state.currentStep = "CONFIRMING_DETAILS"
        /\ state.extractedParameters.set
     THEN Confirming(ToLowerCase(userInput))
     ELSE Processed(processResponse(userInput, state.currentStep, state))

\* handleIssueCreationFlow without its cancellation check.
handleIssueCreationFlow_NoCancellation(userInput, state) ==
  answerIssueCreationFlow(userInput, state)

\* handleIssueCreationFlow: a turn of a conversation that is creating an
\* issue.  It does not reach the completion capability.
handleIssueCreationFlow(userInput, state) ==
  IF checkForCancellation(userInput)
  THEN Outcome(resetState(state),
               Result("cancel", CancelledMessage, Undefined),
               0, NotRun, NotRun)
  ELSE answerIssueCreationFlow(userInput, state)

\* processUserInput with the chat check before the search check.
processUserInput_ChatFirst(userInput, state, c) ==
  IF detectsChatIntent(userInput)
  THEN Outcome(state, Result("regular_chat", NoMessage, Undefined),
               0, NotRun, NotRun)
  ELSE IF detectsSearchIntent(userInput)
  THEN Outcome(state,
               Result("search", NoMessage,
                      Str(extractSearchQuery(userInput))),
               0, NotRun, NotRun)
  ELSE startIssueCreationWithAI(userInput, state, c)

\* processUserInput.  The request handler passes a state that is not
\* creating an issue; a conversation of several turns passes the state the
\* turn before left.
processUserInput(userInput, state, c) ==
  IF state.isCreatingIssue THEN handleIssueCreationFlow(userInput, state)
  ELSE IF detectsSearchIntent(userInput)
  THEN Outcome(state,
               Result("search", NoMessage,
                      Str(extractSearchQuery(userInput))),
               0, NotRun, NotRun)
  ELSE IF detectsChatIntent(userInput)
  THEN Outcome(state, Result("regular_chat", NoMessage, Undefined),
               0, NotRun, NotRun)
  ELSE startIssueCreationWithAI(userInput, state, c)

(***************************************************************************)
(* The inputs: the utterances and the answers of the completion            *)
(* capability.                                                             *)
(***************************************************************************)
\* "Create a bug in FV Engineering called 'Login button not working' with description 'Users cannot authenticate on mobile devices'"
U_ReadmeBug == <<"C","r","e","a","t","e"," ","a"," ","b","u","g"," ","i",
  "n"," ","F","V"," ","E","n","g","i","n","e","e","r","i","n","g"," ","c",
  "a","l","l","e","d"," ","'","L","o","g","i","n"," ","b","u","t","t","o",
  "n"," ","n","o","t"," ","w","o","r","k","i","n","g","'"," ","w","i","t",
  "h"," ","d","e","s","c","r","i","p","t","i","o","n"," ","'","U","s","e",
  "r","s"," ","c","a","n","n","o","t"," ","a","u","t","h","e","n","t","i",
  "c","a","t","e"," ","o","n"," ","m","o","b","i","l","e"," ","d","e","v",
  "i","c","e","s","'">>
\* "Title: 'Campaign not being created' Issue Description: 'validation on last step isnt working'"
U_Labels == <<"T","i","t","l","e",":"," ","'","C","a","m","p","a","i","g",
  "n"," ","n","o","t"," ","b","e","i","n","g"," ","c","r","e","a","t","e",
  "d","'"," ","I","s","s","u","e"," ","D","e","s","c","r","i","p","t","i",
  "o","n",":"," ","'","v","a","l","i","d","a","t","i","o","n"," ","o","n",
  " ","l","a","s","t"," ","s","t","e","p"," ","i","s","n","t"," ","w","o",
  "r","k","i","n","g","'">>
\* 'Title: Login broken Description: Users cannot log in'
U_Unquoted == <<"T","i","t","l","e",":"," ","L","o","g","i","n"," ","b","r",
  "o","k","e","n"," ","D","e","s","c","r","i","p","t","i","o","n",":"," ",
  "U","s","e","r","s"," ","c","a","n","n","o","t"," ","l","o","g"," ","i",
  "n">>
\* "Title: 'Checkout crashes' on the payment page"
U_TitleOnly == <<"T","i","t","l","e",":"," ","'","C","h","e","c","k","o",
  "u","t"," ","c","r","a","s","h","e","s","'"," ","o","n"," ","t","h","e",
  " ","p","a","y","m","e","n","t"," ","p","a","g","e">>
\* 'Title: "Export fails" Description: "CSV download returns 500"'
U_LabelsDouble == <<"T","i","t","l","e",":"," ","\"","E","x","p","o","r",
  "t"," ","f","a","i","l","s","\""," ","D","e","s","c","r","i","p","t","i",
  "o","n",":"," ","\"","C","S","V"," ","d","o","w","n","l","o","a","d"," ",
  "r","e","t","u","r","n","s"," ","5","0","0","\"">>
\* 'can you please create a new issue'
U_NewIssue == <<"c","a","n"," ","y","o","u"," ","p","l","e","a","s","e"," ",
  "c","r","e","a","t","e"," ","a"," ","n","e","w"," ","i","s","s","u","e">>
\* 'search for issues about login'
U_SearchLogin == <<"s","e","a","r","c","h"," ","f","o","r"," ","i","s","s",
  "u","e","s"," ","a","b","o","u","t"," ","l","o","g","i","n">>
\* 'find tickets about billing'
U_FindTickets == <<"f","i","n","d"," ","t","i","c","k","e","t","s"," ","a",
  "b","o","u","t"," ","b","i","l","l","i","n","g">>
\* 'help me find the ticket of Bob'
U_HelpFind == <<"h","e","l","p"," ","m","e"," ","f","i","n","d"," ","t","h",
  "e"," ","t","i","c","k","e","t"," ","o","f"," ","B","o","b">>
\* 'hello'
U_Hello == <<"h","e","l","l","o">>
\* 'what is jira?'
U_WhatIs == <<"w","h","a","t"," ","i","s"," ","j","i","r","a","?">>

\* 'find issues'
U_FindIssues == <<"f","i","n","d"," ","i","s","s","u","e","s">>

Utterances ==
  {U_ReadmeBug, U_Labels, U_LabelsDouble, U_Unquoted, U_TitleOnly,
   U_NewIssue,
   U_SearchLogin, U_FindTickets, U_HelpFind, U_FindIssues, U_Hello, U_WhatIs}

\* 'Login button not working'
V_LoginTitle == <<"L","o","g","i","n"," ","b","u","t","t","o","n"," ","n",
  "o","t"," ","w","o","r","k","i","n","g">>
\* 'Users cannot authenticate on mobile devices'
V_UsersCannot == <<"U","s","e","r","s"," ","c","a","n","n","o","t"," ","a",
  "u","t","h","e","n","t","i","c","a","t","e"," ","o","n"," ","m","o","b",
  "i","l","e"," ","d","e","v","i","c","e","s">>

\* What the completion can give for the title and the description: nothing,
\* a null or empty value with a confidence, a value at, below and above
\* the threshold, a confidence that is no number, and values that are no
\* strings.
TitleParams ==
  {AbsentParam, RawParam(Null, 90), RawParam(Str(<<>>), 80),
   RawParam(Str(V_LoginTitle), 90), RawParam(Str(V_LoginTitle), 59),
   RawParam(Str(V_LoginTitle), 60), RawParam(Str(V_LoginTitle), NaN),
   RawParam(Number42, 90), RawParam(UnprintableObject, 90)}

DescriptionParams ==
  {AbsentParam, RawParam(Null, NaN), RawParam(Str(V_UsersCannot), 95),
   RawParam(Str(V_UsersCannot), 59), RawParam(Str(V_UsersCannot), 60),
   RawParam(PlainObject, 70)}

TypeParams ==
  {AbsentParam, RawParam(Str(S_Bug), 90), RawParam(Str(S_Task), 59),
   RawParam(Str(S_Story), 150), RawParam(Str(S_Epic), NaN),
   RawParam(Str(<<"b","u","g">>), 90),
   RawParam(Str(<<"F","e","a","t","u","r","e">>), 80),
   RawParam(Number42, 90), RawParam(Null, 90)}

ProjectParams ==
  {AbsentParam, RawParam(Str(S_FVEngineering), 90),
   RawParam(Str(<<"e","n","g">>), 90), RawParam(Str(<<"E","N","G">>), 30),
   RawParam(Str(<<" ","F","V"," ","P","r","o","d","u","c","t"," ">>), 60),
   RawParam(Str(<<"p","r","o","d","u","c","t">>), 90),
   RawParam(Str(<<"f","v">>), 90),
   RawParam(Str(<<"F","V"," ","D","e","m","o"," ","(","P","r","o","d","u","c","t",")">>), 70),
   RawParam(Str(<<"M","a","r","k","e","t","i","n","g">>), 90),
   RawParam(Str(K_constructor), 90),
   RawParam(Number42, 90), RawParam(Null, 70)}

PriorityParams ==
  {AbsentParam, RawParam(Str(S_High), 90), RawParam(Str(S_Lowest), 60),
   RawParam(Str(S_Low), 59), RawParam(Str(S_Highest), 0 - 20),
   RawParam(Str(<<"h","i","g","h">>), 90),
   RawParam(Str(<<"C","r","i","t","i","c","a","l">>), 100),
   RawParam(PlainObject, 90)}

JsonCompletion(t, ty, pr, pi, d) ==
  [kind |-> "json", title |-> t, type |-> ty, project |-> pr,
   priority |-> pi, description |-> d]

\* A completion that carries no parsed object.
OtherCompletion(kind) ==
  [JsonCompletion(AbsentParam, AbsentParam, AbsentParam, AbsentParam,
                  AbsentParam) EXCEPT !.kind = kind]

ValidTitle == RawParam(Str(V_LoginTitle), 90)
ValidDescription == RawParam(Str(V_UsersCannot), 95)

\* The parsed objects of a completion: the title and the description in
\* every combination, and the type, the project and the priority each
\* varied over all its values, beside the other four fields absent and
\* beside the other four valid.
JsonCompletions ==
  LET Around(t, ty, pr, pi, d) ==
        {JsonCompletion(x, ty, pr, pi, y) :
           x \in TitleParams, y \in DescriptionParams}
          \cup {JsonCompletion(t, x, pr, pi, d) : x \in TypeParams}
          \cup {JsonCompletion(t, ty, x, pi, d) : x \in ProjectParams}
          \cup {JsonCompletion(t, ty, pr, x, d) : x \in PriorityParams}
  IN Around(AbsentParam, AbsentParam, AbsentParam, AbsentParam,
            AbsentParam)
       \cup Around(ValidTitle, RawParam(Str(S_Task), 90),
                   RawParam(Str(S_FVEngineering), 90),
                   RawParam(Str(S_High), 90), ValidDescription)

\* The completion of the README's prompt: the type, the project, the title
\* and the description it states, and no priority.
ReadmeCompletion ==
  JsonCompletion(ValidTitle, RawParam(Str(S_Bug), 90),
                 RawParam(Str(S_FVEngineering), 90), AbsentParam,
                 ValidDescription)

\* The same with every confidence at the threshold or above it.
ReadmeCompletions ==
  {JsonCompletion(RawParam(Str(V_LoginTitle), ct), RawParam(Str(S_Bug), cy),
                  RawParam(Str(S_FVEngineering), cp), AbsentParam,
                  RawParam(Str(V_UsersCannot), cd)) :
     ct \in {60, 90}, cy \in {60, 90}, cp \in {60, 90}, cd \in {60, 95}}

Completions ==
  {OtherCompletion(kind) : kind \in {"rejects", "empty", "garbled"}}
    \cup JsonCompletions \cup ReadmeCompletions

\* The completion of a request in which the capability is not called.
NotAsked == OtherCompletion("not asked")

(***************************************************************************)
(* Texts.  The text of an error is a string; one that is null or undefined *)
(* is JsNull or NoMessage.  A message to the user is the tuple of its      *)
(* pieces: the constant parts of the template literal and the values it    *)
(* interpolates.                                                           *)
(***************************************************************************)
JsNull == "(null)"

\* The message that is the string s.
Text(s) == <<s>>

\* a || b on texts.
OrText(a, b) == IF a \in {NoMessage, JsNull, ""} THEN b ELSE a

\* String(e) and `${e}` of an Error with the message m.
ErrorString(m) == "Error: " \o m

(***************************************************************************)
(* ZapierService (src/aiParameterExtractor.ts).  The MCP client is not     *)
(* among the sources; what callTool gives is an input:                     *)
(*   kind "rejects"    callTool throws an Error with the message text      *)
(*   kind "isError"    a result with isError and the content text          *)
(*   kind "json"       a content JSON.parse accepts, with execution.status *)
(*                     status, execution.error text and results[i].key     *)
(*                     keys[i]                                             *)
(*   kind "json null"  a content JSON.parse parses to null                 *)
(*   kind "text"       a content JSON.parse rejects                        *)
(* hasSuccess and hasFailure say whether the content holds one of the      *)
(* words parseTextResponse looks for, keys the issue keys on its lines.    *)
(***************************************************************************)
McpResult(kind, text, status, keys, hasSuccess, hasFailure) ==
  [kind |-> kind, text |-> text, status |-> status, keys |-> keys,
   hasSuccess |-> hasSuccess, hasFailure |-> hasFailure]

NoMcpResult == McpResult("none", "", "", <<>>, FALSE, FALSE)

\* The answers to jira_software_cloud_create_issue.
CreateAnswers ==
  {McpResult("rejects", "socket hang up", "", <<>>, FALSE, FALSE),
   McpResult("isError", "Project not found", "", <<>>, FALSE, TRUE),
   McpResult("isError", "", "", <<>>, FALSE, FALSE),
   McpResult("json", "", "SUCCESS", <<"ENG-7">>, TRUE, FALSE),
   McpResult("json", "", "SUCCESS", <<>>, TRUE, FALSE),
   McpResult("json", "Field priority is invalid", "FAILED", <<>>,
             FALSE, TRUE),
   McpResult("json", "", "ERROR", <<>>, FALSE, TRUE),
   McpResult("json", "", "RUNNING", <<>>, FALSE, FALSE),
   McpResult("json null", "null", "", <<>>, FALSE, FALSE),
   McpResult("text", "Issue ENG-8 created", "", <<"ENG-8">>, TRUE, FALSE),
   McpResult("text", "Unable to reach Jira", "", <<>>, FALSE, TRUE),
   McpResult("text", "ok", "", <<>>, FALSE, FALSE)}

\* The answers to jira_software_cloud_find_issue.
SearchAnswers ==
  {McpResult("rejects", "socket hang up", "", <<>>, FALSE, FALSE),
   McpResult("isError", "Query rejected", "", <<>>, FALSE, TRUE),
   McpResult("text", "ENG-1 Login fails\nENG-2 Login slow", "",
             <<"ENG-1", "ENG-2">>, FALSE, FALSE),
   McpResult("text", "nothing found", "", <<>>, FALSE, FALSE)}

\* What createJiraIssue and searchJiraIssues give: a rejection with an
\* Error of the message error, or a value.
ServiceThrew(message) == [threw |-> TRUE, error |-> message]

JiraResult(success, key, error, response) ==
  [threw |-> FALSE, success |-> success, key |-> key, error |-> error,
   response |-> response]

NoJiraResult == JiraResult(FALSE, JsNull, NoMessage, NoMessage)

extractErrorMessage(mcp) == OrText(mcp.text, "Unknown error occurred")

parseTextResponse(mcp) ==
  LET issueKey == IF Len(mcp.keys) > 0 THEN mcp.keys[1] ELSE JsNull
      Parsed(success) ==
        JiraResult(success, issueKey,
                   IF mcp.hasFailure
                   THEN "Text parsing detected failure indicators"
                   ELSE JsNull,
                   IF success
                   THEN "Text parsing detected successful creation"
                          \o (IF issueKey # JsNull
                              THEN " of " \o issueKey ELSE "")
                   ELSE "Text parsing could not confirm successful creation")
  IN Parsed((mcp.hasSuccess \/ issueKey # JsNull) /\ ~mcp.hasFailure)

buildSuccessMessage(mcp) ==
  IF Len(mcp.keys) = 0
  THEN "Issue created successfully (details not available)"
  ELSE "Issue " \o mcp.keys[1] \o " created successfully"

parseCreatedIssueResponse(mcp) ==
  IF mcp.kind = "text" THEN parseTextResponse(mcp)
  ELSE IF mcp.kind = "json null"
  THEN JiraResult(FALSE, NoMessage,
                  "JSON parsing error: Cannot read properties of null (reading 'execution')",
                  mcp.text)
  ELSE IF mcp.status = "SUCCESS"
  THEN JiraResult(TRUE,
                  IF Len(mcp.keys) > 0 THEN mcp.keys[1] ELSE JsNull,
                  NoMessage, buildSuccessMessage(mcp))
  ELSE IF mcp.status \in {"FAILED", "ERROR"}
  THEN JiraResult(FALSE, NoMessage,
                  "Zapier execution failed with status: " \o mcp.status,
                  OrText(mcp.text, "Unknown execution error"))
  ELSE parseTextResponse(mcp)

\* createJiraIssue up to its call of the tool: "call", or the Error it
\* throws before.
createJiraIssueStart(isInitialized, issueData) ==
  IF ~isInitialized
  THEN ServiceThrew("Zapier service not initialized. Call initialize() first.")
  ELSE IF ~Truthy(issueData.project)
  THEN ServiceThrew("Project is required to create a Jira issue")
  ELSE IF ~Truthy(issueData.title)
  THEN ServiceThrew("Title/Summary is required to create a Jira issue")
  ELSE IF \E k \in DOMAIN issueData : ~Printable(issueData[k])
  THEN ServiceThrew("Cannot convert object to primitive value")
  ELSE [threw |-> FALSE, error |-> NoMessage]

\* createJiraIssue from the answer of the tool on.
createJiraIssue(mcp) ==
  IF mcp.kind = "rejects"
  THEN ServiceThrew("Failed to create Jira issue: " \o ErrorString(mcp.text))
  ELSE IF mcp.kind = "isError"
  THEN ServiceThrew("Failed to create Jira issue: "
                      \o ErrorString(extractErrorMessage(mcp)))
  ELSE parseCreatedIssueResponse(mcp)

\* searchJiraIssues from the answer of the tool on: the issues it found.
searchJiraIssues(mcp) ==
  IF mcp.kind = "rejects"
  THEN ServiceThrew("Failed to search Jira issues: " \o ErrorString(mcp.text))
  ELSE IF mcp.kind = "isError"
  THEN ServiceThrew("Failed to search Jira issues: "
                      \o ErrorString(extractErrorMessage(mcp)))
  ELSE [threw |-> FALSE, error |-> NoMessage, results |-> mcp.keys]

(***************************************************************************)
(* ConversationManager: the texts of the creation.                         *)
(***************************************************************************)
formatSuccessMessage(jiraResult, issueData) ==
  << "Perfect! I've successfully created your Jira issue with key ",
     OrText(jiraResult.key, "N/A"), ". The issue \"", issueData.title,
     "\" has been added to your ", issueData.project, " project." >>

formatErrorMessage(jiraResult) ==
  Text("I encountered an issue while creating your Jira ticket. The error was: "
         \o OrText(jiraResult.error,
                   OrText(jiraResult.response, "Unknown error"))
         \o ". Would you like to try again?")

\* displayCreationDetails throws a TypeError on a description that is
\* truthy and has no substring method, and on a field no template literal
\* can print.
displayCreationDetailsThrows(issueData) ==
  \/ \E k \in {"project", "title", "issueType", "priority"} :
       ~Printable(issueData[k])
  \/ Truthy(issueData.description) /\ ~IsString(issueData.description)

(***************************************************************************)
(* The request handler jiraAgent (src/index.ts).  Each request gets a      *)
(* fresh service, a fresh conversation state, a fresh history and one call *)
(* of processUserInput.  An action is the code between two awaits.         *)
(***************************************************************************)
\* The longest prompt validateRequest accepts.
MaxPromptLength == 5000

\* 'hello' followed by spaces, n characters in all.
Padded(n) == U_Hello \o [i \in 1..(n - Len(U_Hello)) |-> " "]

\* The request bodies: none, one without a prompt, prompts that are no
\* strings, an empty and a blank prompt, prompts of the greatest length and
\* one longer, a prompt with blanks around it, and the utterances.
NoBody == [present |-> FALSE, prompt |-> Undefined]
Body(p) == [present |-> TRUE, prompt |-> p]

InvalidBodies ==
  {NoBody, Body(Undefined), Body(Null), Body(Number42), Body(PlainObject),
   Body(Str(<<>>)), Body(Str(<<" ", " ", " ">>)),
   Body(Str(Padded(MaxPromptLength + 1)))}

Bodies ==
  InvalidBodies
    \cup {Body(Str(Padded(MaxPromptLength))),
          Body(Str(<<" ">> \o U_WhatIs \o <<" ">>))}
    \cup {Body(Str(u)) : u \in Utterances}

Methods == {"OPTIONS", "GET", "POST", "DELETE"}

\* validateRequest rejecting a prompt of the greatest length too.
validateRequest_InclusiveLimit(body) ==
  IF ~body.present
  THEN [isValid |-> FALSE, error |-> "Request body is required",
        prompt |-> <<>>]
  ELSE IF ~Truthy(body.prompt)
  THEN [isValid |-> FALSE,
        error |-> "A \"prompt\" field is required in the request body",
        prompt |-> <<>>]
  ELSE IF ~IsString(body.prompt)
  THEN [isValid |-> FALSE, error |-> "The \"prompt\" field must be a string",
        prompt |-> <<>>]
  ELSE IF Len(Trim(body.prompt.s)) = 0
  THEN [isValid |-> FALSE, error |-> "The \"prompt\" field cannot be empty",
        prompt |-> <<>>]
  ELSE IF Len(body.prompt.s) >= MaxPromptLength
  THEN [isValid |-> FALSE,
        error |-> "The \"prompt\" field cannot exceed 5000 characters",
        prompt |-> <<>>]
  ELSE [isValid |-> TRUE, error |-> NoMessage, prompt |-> Trim(body.prompt.s)]

validateRequest(body) ==
  IF ~body.present
  THEN [isValid |-> FALSE, error |-> "Request body is required",
        prompt |-> <<>>]
  ELSE IF ~Truthy(body.prompt)
  THEN [isValid |-> FALSE,
        error |-> "A \"prompt\" field is required in the request body",
        prompt |-> <<>>]
  ELSE IF ~IsString(body.prompt)
  THEN [isValid |-> FALSE, error |-> "The \"prompt\" field must be a string",
        prompt |-> <<>>]
  ELSE IF Len(Trim(body.prompt.s)) = 0
  THEN [isValid |-> FALSE, error |-> "The \"prompt\" field cannot be empty",
        prompt |-> <<>>]
  ELSE IF Len(body.prompt.s) > MaxPromptLength
  THEN [isValid |-> FALSE,
        error |-> "The \"prompt\" field cannot exceed 5000 characters",
        prompt |-> <<>>]
  ELSE [isValid |-> TRUE, error |-> NoMessage, prompt |-> Trim(body.prompt.s)]

\* A response: the status and the fields of the JSON body (the times are
\* left out).
Response(status, body) == [status |-> status, body |-> body]

\* Chatbot.addUserMessage and addAssistantMessage.  Its file is not among
\* the sources; the history is the messages in the order they were added.
addUserMessage(h, content) ==
  Append(h, [role |-> "user", content |-> content])
addAssistantMessage(h, content) ==
  Append(h, [role |-> "assistant", content |-> content])

ChatMessage ==
  "I can help you create Jira issues or search for existing ones. What would you like to do?"
UnknownMessage ==
  "I'm not sure how to help with that. You can ask me to create Jira issues or search for existing ones."

\* The response to the unexpected error e (the catch of the handler).
InternalServerError(e) ==
  Response(500,
           [error |-> "Internal Server Error",
            message |-> Text("An unexpected error occurred while processing your request."),
            details |-> e])

\* The responses of handleIssueCreation: to an issue that was created, to
\* a result that reports a failure, and (the catch) to an Error with the
\* message e that createJiraIssue threw.
issueCreated(r, said, issueData, h) ==
  Response(200,
           [action |-> "issue_created", success |-> TRUE, message |-> said,
            issueData |-> [key |-> r.key, summary |-> issueData.title,
                           issueType |-> issueData.issueType,
                           priority |-> issueData.priority],
            conversationHistory |-> h])

issueCreationFailed(r, said, h) ==
  Response(200,
           [action |-> "issue_creation_failed", success |-> FALSE,
            message |-> said, error |-> r.error, conversationHistory |-> h])

\* handleIssueCreation without its catch: the catch of the handler answers.
issueCreationThrown_Uncaught(e, h) == InternalServerError(ErrorString(e))

issueCreationThrown(e, h) ==
  Response(500,
           [action |-> "issue_creation_failed", success |-> FALSE,
            message |-> Text("Failed to create Jira issue: "
                               \o ErrorString(e)),
            error |-> ErrorString(e), conversationHistory |-> h])

\* handleSearch without a query or without a service that is ready: the
\* responses it sends before it returns.
searchUnavailable_Silent(searchQuery, h) == <<>>

searchUnavailable(searchQuery, h) ==
  << Response(200,
              [action |-> "search_failed",
               message |-> IF Truthy(searchQuery)
                           THEN Text("Search functionality is not available")
                           ELSE Text("No search query provided"),
               conversationHistory |-> h]) >>

NoRequest == [method |-> "none", body |-> NoBody]
NoCalls ==
  [initialize |-> 0, processUserInput |-> 0, creation |-> 0, search |-> 0,
   cleanup |-> 0]
NoService == [assigned |-> FALSE, isInitialized |-> FALSE]

\* No function called yet.
NoCall == [fn |-> "none", input |-> <<>>, output |-> Undefined]

VARIABLES
  pc,               \* where the handler is: "idle", "received", "validated",
                    \* "initialized", "completing", "processed", "creating",
                    \* "searching", "finally", "done"
  request,          \* the method and the body of the request
  prompt,           \* the utterance of the request: validation.prompt
  completion,       \* what the completion capability answered
  state,            \* the ConversationState of the request
  result,           \* what processUserInput returned
  completionCalls,  \* the calls of the completion capability in the request
  extracted,        \* what extractParameters returned
  validated,        \* what validateExtractedParameters returned
  zapierService,    \* whether the handler holds the service, and the
                    \* service's isInitialized
  history,          \* the conversation history of the request's chatbot
  calls,            \* the calls of initialize, processUserInput,
                    \* createJiraIssue, searchJiraIssues and cleanup
  inFlight,         \* the calls of the outer capabilities not yet settled
  issueHanded,      \* the issue data createJiraIssue was called with
  jiraResult,       \* what createJiraIssue gave
  responses,        \* the responses sent to the request
  lexical           \* the last call of a function of the lexical extractor
                    \* or of the validator made apart from a request: the
                    \* function, its argument and what it returned

vars == <<pc, request, prompt, completion, state, result, completionCalls,
          extracted, validated, zapierService, history, calls, inFlight,
          issueHanded, jiraResult, responses, lexical>>

coreVars == <<prompt, completion, state, result, completionCalls,
              extracted, validated>>
serviceVars == <<zapierService, calls, inFlight, issueHanded, jiraResult>>

Init ==
  /\ pc = "idle"
  /\ request = NoRequest
  /\ prompt = <<>>
  /\ completion = NotAsked
  /\ state = InitialState
  /\ result = Result("none", NoMessage, Undefined)
  /\ completionCalls = 0
  /\ extracted = NotRun
  /\ validated = NotRun
  /\ zapierService = NoService
  /\ history = <<>>
  /\ calls = NoCalls
  /\ inFlight = {}
  /\ issueHanded = EmptyIssueData
  /\ jiraResult = NoJiraResult
  /\ responses = <<>>
  /\ lexical = NoCall

\* A request arrives.
ReceiveRequest ==
  /\ pc = "idle"
  /\ \E m \in Methods :
       \E b \in IF m = "POST" THEN Bodies ELSE {NoBody} :
         request' = [method |-> m, body |-> b]
  /\ pc' = "received"
  /\ UNCHANGED <<coreVars, serviceVars, history, responses>>
  /\ UNCHANGED lexical

\* The preflight, the health check and the methods that are not allowed:
\* the handler returns before its try.
AnswerMethod ==
  /\ pc = "received"
  /\ request.method # "POST"
  /\ responses' =
       Append(responses,
              IF request.method = "OPTIONS"
              THEN Response(204, [text |-> ""])
              ELSE IF request.method = "GET"
              THEN Response(200,
                            [status |-> "healthy",
                             service |-> "jira-agent-cloud-function",
                             message |-> Text("Send a POST request with a \"prompt\" field to use the Jira agent")])
              ELSE Response(405,
                            [error |-> "Method Not Allowed",
                             message |-> Text("Only POST requests are supported for agent functionality"),
                             allowedMethods |-> <<"POST", "OPTIONS", "GET">>]))
  /\ pc' = "done"
  /\ UNCHANGED <<request, coreVars, serviceVars, history>>
  /\ UNCHANGED lexical

\* validateRequest and the 400 of a body it rejects.
ValidateRequest ==
  /\ pc = "received"
  /\ request.method = "POST"
  /\ \E validation \in {validateRequest(request.body)} :
       IF ~validation.isValid
       THEN /\ responses' =
                 Append(responses,
                        Response(400, [error |-> "Bad Request",
                                       message |-> Text(validation.error)]))
            /\ pc' = "finally"
            /\ UNCHANGED prompt
       ELSE /\ prompt' = validation.prompt
            /\ pc' = "validated"
            /\ UNCHANGED responses
  /\ UNCHANGED <<request, completion, state, result, completionCalls,
                 extracted, validated, serviceVars, history>>
  /\ UNCHANGED lexical

\* initializeServices: the connection of the MCP client succeeds or fails.
\* After it the chatbot and the state are made, the prompt is added to the
\* history and processUserInput is called.
InitializeServices ==
  /\ pc = "validated"
  /\ calls' = [calls EXCEPT !.initialize = @ + 1]
  /\ \E connected \in BOOLEAN :
       IF connected
       THEN /\ zapierService' = [assigned |-> TRUE, isInitialized |-> TRUE]
            /\ history' = addUserMessage(<<>>, prompt)
            /\ state' = InitialState
            /\ pc' = "initialized"
            /\ UNCHANGED responses
       ELSE /\ responses' =
                 Append(responses,
                        Response(503,
                                 [error |-> "Service Unavailable",
                                  message |-> Text("Could not initialize Jira service. Please try again later."),
                                  details |-> ErrorString("Service initialization failed: "
                                                            \o ErrorString("connect ECONNREFUSED"))]))
            /\ pc' = "finally"
            /\ UNCHANGED <<zapierService, history, state>>
  /\ UNCHANGED <<request, prompt, completion, result, completionCalls,
                 extracted, validated, inFlight, issueHanded, jiraResult>>
  /\ UNCHANGED lexical

\* Whether processUserInput reaches the completion capability.
AsksCompletion(userInput, st) ==
  processUserInput(userInput, st, NotAsked).completionCalls > 0

\* processUserInput up to the call of the completion capability.
CallCompletion ==
  /\ pc = "initialized"
  /\ AsksCompletion(prompt, state)
  /\ state' = [state EXCEPT !.isCreatingIssue = TRUE,
                            !.currentStep = "AI_EXTRACTING"]
  /\ calls' = [calls EXCEPT !.processUserInput = @ + 1]
  /\ completionCalls' = completionCalls + 1
  /\ inFlight' = inFlight \cup {"completion"}
  /\ pc' = "completing"
  /\ UNCHANGED <<request, prompt, completion, result, extracted, validated,
                 zapierService, issueHanded, jiraResult, history, responses>>
  /\ UNCHANGED lexical

\* processUserInput returns: at once for a search and a chat, and when
\* the completion capability has settled for a creation.
ProcessUserInput ==
  /\ \/ pc = "completing"
     \/ pc = "initialized" /\ ~AsksCompletion(prompt, state)
  /\ \E userInput \in {prompt} :
       \E asks \in {pc = "completing"} :
         \E c \in IF asks THEN Completions ELSE {NotAsked} :
           /\ completion' = c
           /\ \E o \in {IF asks
                        THEN startIssueCreationWithAI(userInput, state, c)
                        ELSE processUserInput(userInput, state, c)} :
              /\ state' = o.state
              /\ result' = o.result
              /\ completionCalls' = IF asks THEN completionCalls
                                    ELSE o.completionCalls
              /\ extracted' = o.extracted
              /\ validated' = o.validated
              /\ calls' = IF asks THEN calls
                          ELSE [calls EXCEPT !.processUserInput = @ + 1]
  /\ inFlight' = inFlight \ {"completion"}
  /\ pc' = "processed"
  /\ UNCHANGED <<request, prompt, zapierService, issueHanded, jiraResult,
                 history, responses>>
  /\ UNCHANGED lexical

\* The cases of the switch that answer at once: the action of the
\* response, what is added to the history (nothing when the result has no
\* message) and the message of the response.
AnswerResult ==
  /\ pc = "processed"
  /\ result.action \notin {"create_issue", "search"}
  /\ \E answer \in
        {IF result.action = "continue"
         THEN [action |-> "continue", said |-> result.message,
               message |-> OrText(result.message,
                                  "Please provide more information.")]
         ELSE IF result.action = "cancel"
         THEN [action |-> "cancelled", said |-> result.message,
               message |-> OrText(result.message, "Operation cancelled.")]
         ELSE IF result.action = "error"
         THEN [action |-> "error", said |-> result.message,
               message |-> OrText(result.message,
                                  "An error occurred while processing your request.")]
         ELSE IF result.action = "regular_chat"
         THEN [action |-> "chat_response", said |-> ChatMessage,
               message |-> ChatMessage]
         ELSE [action |-> "unknown", said |-> UnknownMessage,
               message |-> UnknownMessage]} :
       \E h \in {IF answer.said \in {NoMessage, JsNull, ""} THEN history
                 ELSE addAssistantMessage(history, Text(answer.said))} :
         /\ history' = h
         /\ responses' =
              Append(responses,
                     Response(200,
                              [action |-> answer.action,
                               message |-> Text(answer.message),
                               conversationHistory |-> h]))
  /\ pc' = "finally"
  /\ UNCHANGED <<request, coreVars, serviceVars>>
  /\ UNCHANGED lexical

\* handleIssueCreation up to the call of the tool: displayCreationDetails
\* and the start of createJiraIssue.
StartIssueCreation ==
  /\ pc = "processed"
  /\ result.action = "create_issue"
  /\ IF displayCreationDetailsThrows(state.issueData)
     THEN /\ responses' =
               Append(responses,
                      InternalServerError("TypeError: issueData.description.substring is not a function"))
          /\ pc' = "finally"
          /\ UNCHANGED serviceVars
     ELSE \E started \in {createJiraIssueStart(zapierService.isInitialized,
                                               state.issueData)} :
            /\ calls' = [calls EXCEPT !.creation = @ + 1]
            /\ issueHanded' = state.issueData
            /\ UNCHANGED zapierService
            /\ IF started.threw
               THEN /\ jiraResult' = started
                    /\ responses' =
                         Append(responses,
                                issueCreationThrown(started.error, history))
                    /\ pc' = "finally"
                    /\ UNCHANGED inFlight
               ELSE /\ inFlight' = inFlight \cup {"creation"}
                    /\ pc' = "creating"
                    /\ UNCHANGED <<jiraResult, responses>>
  /\ UNCHANGED <<request, coreVars, history>>
  /\ UNCHANGED lexical

\* The tool has answered: the rest of createJiraIssue and of
\* handleIssueCreation.
FinishIssueCreation ==
  /\ pc = "creating"
  /\ \E mcp \in CreateAnswers :
       \E r \in {createJiraIssue(mcp)} :
         /\ jiraResult' = r
         /\ IF r.threw
            THEN /\ responses' =
                      Append(responses, issueCreationThrown(r.error, history))
                 /\ UNCHANGED history
            ELSE \E said \in {IF r.success
                              THEN formatSuccessMessage(r, state.issueData)
                              ELSE formatErrorMessage(r)} :
                   \E h \in {addAssistantMessage(history, said)} :
                     /\ history' = h
                     /\ responses' =
                          Append(responses,
                                 IF r.success
                                 THEN issueCreated(r, said, state.issueData, h)
                                 ELSE issueCreationFailed(r, said, h))
  /\ inFlight' = inFlight \ {"creation"}
  /\ pc' = "finally"
  /\ UNCHANGED <<request, coreVars, zapierService, calls, issueHanded>>
  /\ UNCHANGED lexical

\* handleSearch up to the call of the tool: isReady asks the MCP client
\* whether it is still connected.
StartSearch ==
  /\ pc = "processed"
  /\ result.action = "search"
  /\ \E isClientConnected \in BOOLEAN :
       \E searchQuery \in {result.searchQuery} :
         IF ~Truthy(searchQuery)
              \/ ~(zapierService.isInitialized /\ isClientConnected)
         THEN /\ responses' =
                   responses \o searchUnavailable(searchQuery, history)
              /\ pc' = "finally"
              /\ UNCHANGED <<calls, inFlight>>
         ELSE /\ calls' = [calls EXCEPT !.search = @ + 1]
              /\ inFlight' = inFlight \cup {"search"}
              /\ pc' = "searching"
              /\ UNCHANGED responses
  /\ UNCHANGED <<request, coreVars, zapierService, issueHanded, jiraResult,
                 history>>
  /\ UNCHANGED lexical

\* The tool has answered: the rest of searchJiraIssues and of handleSearch.
FinishSearch ==
  /\ pc = "searching"
  /\ \E mcp \in SearchAnswers :
       \E r \in {searchJiraIssues(mcp)} :
         \E said \in
            {IF r.threw THEN Text("Search failed: " \o ErrorString(r.error))
             ELSE IF Len(r.results) > 0
             THEN <<"Found ", Len(r.results), " issue(s) matching \"",
                    result.searchQuery, "\"">>
             ELSE <<"No issues found matching \"", result.searchQuery,
                    "\"">>} :
           \E h \in {addAssistantMessage(history, said)} :
             /\ history' = h
             /\ responses' =
                  Append(responses,
                         IF r.threw
                         THEN Response(500,
                                       [action |-> "search_failed",
                                        message |-> said,
                                        error |-> ErrorString(r.error),
                                        conversationHistory |-> h])
                         ELSE Response(200,
                                       [action |-> "search_results",
                                        searchQuery |-> result.searchQuery,
                                        results |-> r.results,
                                        message |-> said,
                                        conversationHistory |-> h]))
  /\ inFlight' = inFlight \ {"search"}
  /\ pc' = "finally"
  /\ UNCHANGED <<request, coreVars, zapierService, calls, issueHanded,
                 jiraResult>>
  /\ UNCHANGED lexical

\* The finally of the handler: cleanup of the service the handler holds;
\* the disconnection succeeds or throws, and what it throws is caught.
Cleanup ==
  /\ pc = "finally"
  /\ IF zapierService.assigned
     THEN /\ calls' = [calls EXCEPT !.cleanup = @ + 1]
          /\ \E disconnected \in BOOLEAN :
               zapierService' =
                 [zapierService EXCEPT
                    !.isInitialized = @ /\ ~disconnected]
     ELSE UNCHANGED <<calls, zapierService>>
  /\ pc' = "done"
  /\ UNCHANGED <<request, coreVars, inFlight, issueHanded, jiraResult,
                 history, responses>>
  /\ UNCHANGED lexical

\* The request ends; the next one starts from a fresh state.
EndRequest ==
  /\ pc = "done"
  /\ pc' = "idle"
  /\ request' = NoRequest
  /\ prompt' = <<>>
  /\ completion' = NotAsked
  /\ state' = InitialState
  /\ result' = Result("none", NoMessage, Undefined)
  /\ completionCalls' = 0
  /\ extracted' = NotRun
  /\ validated' = NotRun
  /\ zapierService' = NoService
  /\ history' = <<>>
  /\ calls' = NoCalls
  /\ inFlight' = {}
  /\ issueHanded' = EmptyIssueData
  /\ jiraResult' = NoJiraResult
  /\ responses' = <<>>
  /\ UNCHANGED lexical

Next ==
  \/ ReceiveRequest
  \/ AnswerMethod
  \/ ValidateRequest
  \/ InitializeServices
  \/ CallCompletion
  \/ ProcessUserInput
  \/ AnswerResult
  \/ StartIssueCreation
  \/ FinishIssueCreation
  \/ StartSearch
  \/ FinishSearch
  \/ Cleanup
  \/ EndRequest

Spec == Init /\ [][Next]_vars

\* The steps of the handler outside the controller.
Handle ==
  \/ AnswerMethod
  \/ ValidateRequest
  \/ InitializeServices
  \/ AnswerResult
  \/ StartIssueCreation
  \/ FinishIssueCreation
  \/ StartSearch
  \/ FinishSearch
  \/ Cleanup
  \/ EndRequest

\* The handler leaves the stages in which it awaits processUserInput.
ControllerReturns ==
  /\ pc \in {"initialized", "completing"}
  /\ pc' \in {"completing", "processed"}

\* The handler keeps running, every call it awaits settles, and
\* processUserInput returns.
LiveSpec == Spec /\ WF_vars(Handle) /\ WF_pc(ControllerReturns)

(***************************************************************************)
(* The properties checked of the specification Spec.                       *)
(***************************************************************************)
\* A confidence c is below the threshold t (a confidence that is no number
\* is below nothing).
Below(c, t) == c # NaN /\ c < t

\* The fields of an ExtractedParameter.
FieldKeys == {"value", "confidence", "source"}

\* The four project names of the workspace.
CanonicalProjects ==
  {Str(S_FVDemoIssues), Str(S_FVDemoProduct), Str(S_FVEngineering),
   Str(S_FVProduct)}

\* validateExtractedParameters ran in the request and returned.
ValidationReturned == validated.ran /\ ~validated.threw

\* C1: extractParameters never throws to its caller: whatever the text and
\* whatever the completion does (an object, an empty response, a text that
\* is no JSON, missing or wrongly typed fields, a thrown error), it returns
\* an ExtractedParameters with the five keys title, type, project, priority
\* and description.
C1_ExtractParametersNeverThrows ==
  extracted.ran =>
    /\ ~extracted.threw
    /\ DOMAIN extracted.value = ParameterNames
    /\ \A f \in ParameterNames : DOMAIN extracted.value[f] = FieldKeys

\* C1, witness: the completion call threw and extractParameters returned
\* the all-default extraction.
C1_Witness_CompletionThrew ==
  /\ pc = "processed"
  /\ completion.kind = "rejects"
  /\ extracted.ran /\ ~extracted.threw
  /\ extracted.value = createDefaultExtraction

\* C2: when the AI-assisted creation turn returns 'create_issue', the
\* required-field check has passed and issueData holds all five fields, each
\* equal to the validated extracted value; no question was asked before it.
C2_CreateIssueHoldsValidatedFields ==
  result.action = "create_issue" =>
    /\ ValidationReturned
    /\ validateRequiredParameters(validated.value, RequiredThreshold).isValid
    /\ state.issueData.title = validated.value.title.value
    /\ state.issueData.description = validated.value.description.value
    /\ state.issueData.project = validated.value.project.value
    /\ state.issueData.issueType = validated.value.type.value
    /\ state.issueData.priority = validated.value.priority.value
    /\ \A k \in DOMAIN state.issueData :
         state.issueData[k] \notin {Undefined, Null}
    /\ state.hasAskedFor = {}
    /\ state.currentStep = "AI_EXTRACTING"

\* C2, witness: a creation whose type is the default, copied to issueData.
C2_Witness_DefaultsCopied ==
  /\ result.action = "create_issue"
  /\ validated.value.type.source = "default"
  /\ state.issueData.issueType = Str(S_Bug)
  /\ state.issueData.title = Str(V_LoginTitle)

\* C3: when the required-field check fails, the turn returns 'error' with a
\* message that names exactly the missing fields among title and
\* description, joined by ' and ' when both are missing, and the state
\* afterwards has its initial shape; and an 'error' is returned only then.
\* (The message is compared without its leading emoji.)
C3_MissingRequiredGivesErrorAndReset ==
  LET Missing(f) ==
        \/ validated.value[f].value = Null
        \/ Below(validated.value[f].confidence, 60)
      names ==
        IF Missing("title") /\ Missing("description")
        THEN "title and description"
        ELSE IF Missing("title") THEN "title" ELSE "description"
      failed ==
        ValidationReturned /\ (Missing("title") \/ Missing("description"))
  IN /\ result.action = "error" => failed
     /\ failed =>
          /\ result.action = "error"
          /\ result.message =
               "Missing required information: " \o names
                 \o ". Please provide both a title and description in your request."
          /\ state.isCreatingIssue = FALSE
          /\ state.currentStep = "DETECTING_INTENT"
          /\ state.issueData = EmptyIssueData
          /\ state.hasAskedFor = {}
          /\ ~state.extractedParameters.set

\* C3, witness: both required fields are missing.
C3_Witness_BothMissing ==
  /\ result.action = "error"
  /\ validated.value.title.value = Null
  /\ validated.value.description.value = Null
  /\ result.message =
       "Missing required information: title and description. Please provide both a title and description in your request."

\* C4: validateRequiredParameters with the threshold 0.6 reports title or
\* description missing if and only if its value is null or its confidence is
\* below 0.6 (0.59 is missing, 0.6 with a value is not), and isValid is true
\* exactly when nothing is missing.
C4_RequiredCheckThreshold ==
  ValidationReturned =>
    LET v == validateRequiredParameters(validated.value, RequiredThreshold)
        reported == {v.missingRequired[i] : i \in 1..Len(v.missingRequired)}
    IN /\ \A f \in {"title", "description"} :
            f \in reported <=>
              \/ validated.value[f].value = Null
              \/ Below(validated.value[f].confidence, 60)
       /\ reported \subseteq {"title", "description"}
       /\ v.isValid <=> v.missingRequired = <<>>

\* C4, witness: a title with confidence 0.59 is missing beside a description
\* with confidence 0.6 that is not.
C4_Witness_Boundary ==
  /\ ValidationReturned
  /\ validated.value.title.value = Str(V_LoginTitle)
  /\ validated.value.title.confidence = 59
  /\ validated.value.description.value = Str(V_UsersCannot)
  /\ validated.value.description.confidence = 60
  /\ validateRequiredParameters(validated.value, RequiredThreshold)
       = [isValid |-> FALSE, missingRequired |-> <<"title">>]

\* C5: after applyDefaults and validateExtractedParameters the values of
\* type, project and priority are non-null, whatever the completion gave;
\* the values of title and description may be null.
C5_CategoricalFieldsPopulated ==
  ValidationReturned =>
    \A f \in {"type", "project", "priority"} :
       /\ validated.value[f].value # Null
       /\ Truthy(validated.value[f].value)

\* C5, witness: the completion gave an object without any field; the three
\* fields hold their defaults and the title and the description are null.
C5_Witness_NothingExtracted ==
  /\ ValidationReturned
  /\ completion.kind = "json"
  /\ completion.type = AbsentParam
  /\ completion.project = AbsentParam
  /\ completion.priority = AbsentParam
  /\ validated.value.type = DefaultType
  /\ validated.value.project = DefaultProject
  /\ validated.value.priority = DefaultPriority
  /\ validated.value.title.value = Null
  /\ validated.value.description.value = Null

\* C6: validateExtractedParameters keeps a type only if it is exactly one
\* of Bug, Task, Story, Epic and a priority only if it is exactly one of
\* Lowest, Low, Medium, High, Highest; every other non-null value is
\* replaced by the default field (Bug, respectively Medium, confidence 1.0,
\* source 'default'), and a valid value is left unchanged together with its
\* confidence and its source.
C6_TypeAndPriorityVocabulary ==
  ValidationReturned =>
    LET Kept(in, out, valid, default) ==
          IF in.value \in valid THEN out = in
          ELSE IF in.value # Null THEN out = default
          ELSE out = in
    IN /\ Kept(extracted.value.type, validated.value.type,
               {Str(S_Bug), Str(S_Task), Str(S_Story), Str(S_Epic)},
               [value |-> Str(S_Bug), confidence |-> 100,
                source |-> "default"])
       /\ Kept(extracted.value.priority, validated.value.priority,
               {Str(S_Lowest), Str(S_Low), Str(S_Medium), Str(S_High),
                Str(S_Highest)},
               [value |-> Str(S_Medium), confidence |-> 100,
                source |-> "default"])

\* C6, witness: the type 'bug', which differs from 'Bug' in its capital, is
\* replaced by the default, beside a priority 'High' that is kept.
C6_Witness_LowerCaseTypeReplaced ==
  /\ ValidationReturned
  /\ extracted.value.type =
       [value |-> Str(<<"b","u","g">>), confidence |-> 90,
        source |-> "ai_extracted"]
  /\ validated.value.type = DefaultType
  /\ extracted.value.priority.value = Str(S_High)
  /\ validated.value.priority = extracted.value.priority

\* C7: validateExtractedParameters resolves every non-null project value to
\* one of the four canonical names: an alias gives its project whatever its
\* capitals ('eng' gives 'FV Engineering'), and every value that matches
\* nothing, 'product' and 'fv' among them, becomes the default
\* 'FV Demo (Issues)' with confidence 1.0 and source 'default'.
C7_ProjectResolvesToCanonicalName ==
  (ValidationReturned /\ extracted.value.project.value # Null) =>
    /\ validated.value.project.value \in CanonicalProjects
    /\ extracted.value.project.value
         \in {Str(<<"e","n","g">>), Str(<<"E","N","G">>)}
         => validated.value.project.value = Str(S_FVEngineering)
    /\ extracted.value.project.value
         \in {Str(<<"p","r","o","d","u","c","t">>), Str(<<"f","v">>),
              Str(<<"M","a","r","k","e","t","i","n","g">>)}
         => validated.value.project = DefaultProject

\* C7, the failing case: the project 'constructor' is looked up in the
\* object literal projectMapping, which inherits a property of that name,
\* and the project value becomes the function Object.
C7_Witness_InheritedProperty ==
  /\ ValidationReturned
  /\ extracted.value.project.value = Str(K_constructor)
  /\ validated.value.project.value = ObjectConstructor
  /\ result.action = "create_issue"
  /\ state.issueData.project = ObjectConstructor

\* C8: every field the pipeline produces has confidence 0 when its value is
\* null, also when the completion supplies a confidence beside a null or an
\* empty value.
C8_NullValueHasZeroConfidence ==
  \A f \in ParameterNames :
     /\ extracted.ran /\ extracted.value[f].value = Null
          => extracted.value[f].confidence = 0
     /\ ValidationReturned /\ validated.value[f].value = Null
          => validated.value[f].confidence = 0

\* C8, the failing case: the completion gives the title a null value with
\* the confidence 0.9, and the title keeps that confidence through
\* extractParameters and validateExtractedParameters.
C8_Witness_NullTitleKeepsConfidence ==
  /\ completion.kind = "json"
  /\ completion.title = RawParam(Null, 90)
  /\ extracted.ran /\ ~extracted.threw
  /\ extracted.value.title.value = Null
  /\ extracted.value.title.confidence = 90
  /\ ValidationReturned
  /\ validated.value.title.confidence = 90

\* C9: applyDefaults replaces each of type, project and priority by its
\* default field exactly when the field's value is null or its confidence
\* is below 0.6, leaves title and description unchanged, and applying it
\* twice gives what applying it once gives.  It is applied here to what
\* extractParameters applies it to: the parsed completion after the patch
\* step.
C9_ApplyDefaultsExactAndIdempotent ==
  (pc = "processed" /\ completion.kind = "json") =>
    LET x == patchFromFallback(prompt, parseAIResponse(completion))
        defaults == [type |-> Str(S_Bug), project |-> Str(S_FVDemoIssues),
                     priority |-> Str(S_Medium)]
        Holds(y) ==
          /\ \A f \in {"type", "project", "priority"} :
                y[f] = IF \/ x[f].value = Null
                          \/ Below(x[f].confidence, 60)
                       THEN [value |-> defaults[f], confidence |-> 100,
                             source |-> "default"]
                       ELSE x[f]
          /\ y.title = x.title
          /\ y.description = x.description
          /\ applyDefaults(y) = y
    IN Holds(applyDefaults(x))

\* C9, witness: the completion gave a type with confidence 0.59, which is
\* below the threshold by one hundredth, and the type was replaced by the
\* default while title and description kept what the completion gave.
C9_Witness_BoundaryConfidence ==
  /\ pc = "processed"
  /\ completion.kind = "json"
  /\ completion.type = RawParam(Str(S_Task), 59)
  /\ extracted.ran /\ ~extracted.threw
  /\ extracted.value.type = DefaultType
  /\ extracted.value.title.value = completion.title.value
  /\ extracted.value.title.source = "ai_extracted"

\* C10: on a state with isCreatingIssue=false, processUserInput classifies
\* the intent before any extraction: search intent gives 'search' with a
\* searchQuery, otherwise chat intent gives 'regular_chat', otherwise the
\* AI-assisted creation starts; in the search and the chat case the
\* completion capability is not called and the state is left unchanged.
C10_IntentBeforeExtraction ==
  pc = "processed" =>
    IF detectsSearchIntent(prompt)
    THEN /\ result.action = "search"
         /\ result.searchQuery = Str(extractSearchQuery(prompt))
         /\ completionCalls = 0 /\ ~extracted.ran
         /\ state = InitialState
    ELSE IF detectsChatIntent(prompt)
    THEN /\ result.action = "regular_chat"
         /\ completionCalls = 0 /\ ~extracted.ran
         /\ state = InitialState
    ELSE /\ result.action \in {"create_issue", "error", "continue"}
         /\ completionCalls = 1 /\ extracted.ran

\* C10, witness: an utterance with search intent and chat intent ("help me
\* find the ticket of Bob") is answered as a search.
C10_Witness_SearchBeforeChat ==
  /\ pc = "processed"
  /\ prompt = U_HelpFind
  /\ detectsChatIntent(prompt)
  /\ result.action = "search"
  /\ result.searchQuery = Str(<<"h","e","l","p"," ","m","e"," "," ","t","h","e"," "," ","o","f"," ","B","o","b">>)
  /\ completionCalls = 0

\* The utterances that ask to search or find issues or tickets and do not
\* ask to create anything.
SearchRequests == {U_SearchLogin, U_FindTickets}

\* C11: an utterance that asks to search or find issues or tickets and does
\* not ask to create anything has search intent and no creation intent, and
\* processUserInput returns 'search' for it; in particular 'search for
\* issues about login'.
C11_SearchRequestIsSearch ==
  (pc = "processed" /\ prompt \in SearchRequests) =>
    /\ ~detectsIssueCreationIntent(prompt)
    /\ detectsSearchIntent(prompt)
    /\ result.action = "search"

\* C11, the failing case: 'search for issues about login' contains the
\* creation keyword 'log' (in 'login') and the issue keyword 'issue', so it
\* has creation intent, no search intent, and the turn starts the
\* AI-assisted creation.
C11_Witness_LoginIsCreation ==
  /\ pc = "processed"
  /\ prompt = U_SearchLogin
  /\ detectsIssueCreationIntent(prompt)
  /\ ~detectsSearchIntent(prompt)
  /\ completionCalls = 1
  /\ result.action \in {"create_issue", "error", "continue"}

\* The texts between the quotes of the labelled utterances.
V_CampaignTitle == <<"C","a","m","p","a","i","g","n"," ","n","o","t"," ",
  "b","e","i","n","g"," ","c","r","e","a","t","e","d">>
V_ValidationStep == <<"v","a","l","i","d","a","t","i","o","n"," ","o","n",
  " ","l","a","s","t"," ","s","t","e","p"," ","i","s","n","t"," ","w","o",
  "r","k","i","n","g">>
V_ExportFails == <<"E","x","p","o","r","t"," ","f","a","i","l","s">>
V_CsvDownload == <<"C","S","V"," ","d","o","w","n","l","o","a","d"," ","r",
  "e","t","u","r","n","s"," ","5","0","0">>

\* The utterances with a quoted 'Title:' label and a quoted 'Description:'
\* or 'Issue Description:' label, each with the two quoted texts.
QuotedLabels ==
  {<<U_Labels, V_CampaignTitle, V_ValidationStep>>,
   <<U_LabelsDouble, V_ExportFails, V_CsvDownload>>}

\* The completion capability was called and failed: the call threw, or it
\* answered without a content.
CompletionFailed ==
  pc = "processed" /\ completion.kind \in {"rejects", "empty"}

\* C12: when the completion capability fails and the utterance carries a
\* quoted 'Title:' label and a quoted 'Description:' or 'Issue Description:'
\* label, extractParameters returns the two quoted texts as title and
\* description with confidence 0.9 and source 'ai_extracted' and the three
\* defaults, the required-field check passes, and the turn ends in
\* 'create_issue'.
C12_FallbackRecoversLabelledFields ==
  \A u \in QuotedLabels :
     (CompletionFailed /\ prompt = u[1]) =>
       /\ extracted.ran /\ ~extracted.threw
       /\ extracted.value =
            [title |-> [value |-> Str(u[2]), confidence |-> 90,
                        source |-> "ai_extracted"],
             description |-> [value |-> Str(u[3]), confidence |-> 90,
                              source |-> "ai_extracted"],
             type |-> [value |-> Str(S_Bug), confidence |-> 100,
                       source |-> "default"],
             project |-> [value |-> Str(S_FVDemoIssues), confidence |-> 100,
                          source |-> "default"],
             priority |-> [value |-> Str(S_Medium), confidence |-> 100,
                           source |-> "default"]]
       /\ ValidationReturned
       /\ validateRequiredParameters(validated.value, RequiredThreshold)
            = [isValid |-> TRUE, missingRequired |-> <<>>]
       /\ result.action = "create_issue"

\* C12, witness: the completion call threw for the README's labelled
\* utterance and the issue is created with the two quoted texts.
C12_Witness_LabelsWithoutCompletion ==
  /\ CompletionFailed
  /\ completion.kind = "rejects"
  /\ prompt = U_Labels
  /\ result.action = "create_issue"
  /\ state.issueData.title = Str(V_CampaignTitle)
  /\ state.issueData.description = Str(V_ValidationStep)

\* C13: when the completion capability fails and the lexical fallback
\* recovers neither a title nor a description, extractParameters returns
\* exactly the all-default extraction (Bug, 'FV Demo (Issues)', Medium, each
\* with confidence 1.0 and source 'default'; title and description null
\* with confidence 0), and the turn ends with the action 'error' naming
\* 'title and description'.
C13_NothingRecoveredGivesDefaultsAndError ==
  (/\ CompletionFailed
   /\ fallbackExtraction(prompt).title.value = Null
   /\ fallbackExtraction(prompt).description.value = Null) =>
    /\ extracted.ran /\ ~extracted.threw
    /\ extracted.value =
         [title |-> [value |-> Null, confidence |-> 0,
                     source |-> "ai_extracted"],
          description |-> [value |-> Null, confidence |-> 0,
                           source |-> "ai_extracted"],
          type |-> [value |-> Str(S_Bug), confidence |-> 100,
                    source |-> "default"],
          project |-> [value |-> Str(S_FVDemoIssues), confidence |-> 100,
                       source |-> "default"],
          priority |-> [value |-> Str(S_Medium), confidence |-> 100,
                        source |-> "default"]]
    /\ ValidationReturned
    /\ result.action = "error"
    /\ result.message =
         "Missing required information: title and description. Please provide both a title and description in your request."

\* C13, witness: the completion answered without a content for the README's
\* bug report, which carries no label; the turn ends in 'error'.
C13_Witness_NoLabelNoCompletion ==
  /\ CompletionFailed
  /\ completion.kind = "empty"
  /\ prompt = U_ReadmeBug
  /\ fallbackExtraction(prompt) = createEmptyExtraction
  /\ extracted.value = createDefaultExtraction
  /\ result.action = "error"

(***************************************************************************)
(* The properties of the request handler.                                  *)
(***************************************************************************)
\* The issue data of the README's first example.
ReadmeIssue ==
  [project |-> Str(S_FVEngineering), issueType |-> Str(S_Bug),
   title |-> Str(V_LoginTitle), description |-> Str(V_UsersCannot),
   priority |-> Str(S_Medium)]

\* processUserInput has returned and the handler has gone past its switch.
PastSwitch == pc \in {"creating", "searching", "finally", "done"}

\* C14: for the README's prompt and a completion that gives the type Bug,
\* the project FV Engineering, the title and the description with a
\* confidence of at least 0.6 and no priority, createJiraIssue is called,
\* once, with project 'FV Engineering', issueType 'Bug', the title, the
\* description and the priority 'Medium'.
C14_ReadmePromptBuildsIssue ==
  (prompt = U_ReadmeBug /\ completion \in ReadmeCompletions)
    => /\ pc = "processed" => state.issueData = ReadmeIssue
       /\ PastSwitch => calls.creation = 1 /\ issueHanded = ReadmeIssue

C14_Witness_ReadmeIssueHanded ==
  /\ pc = "creating"
  /\ prompt = U_ReadmeBug
  /\ completion = ReadmeCompletion
  /\ issueHanded.priority = Str(S_Medium)
  /\ "creation" \in inFlight

\* The one response of the request, once it is sent.
Answered == Len(responses) = 1
TheResponse == responses[1]

\* The response has the field k with the value v.
Carries(k, v) == k \in DOMAIN TheResponse.body /\ TheResponse.body[k] = v

\* createJiraIssue has settled without an issue: it returned a result
\* with success false, or it threw.
CreationReturnedFailure ==
  /\ pc \in {"finally", "done"}
  /\ calls.creation = 1
  /\ ~jiraResult.threw
  /\ ~jiraResult.success

CreationThrew ==
  /\ pc \in {"finally", "done"}
  /\ calls.creation = 1
  /\ jiraResult.threw

\* C16: a creation that returns success false and a creation that throws
\* are both answered with the action 'issue_creation_failed' and success
\* false; the response carries the error of the result, or the thrown
\* error as a string, and the message holds the text of the failure.
C16_CreationFailureIsOneOutcome ==
  /\ (CreationReturnedFailure \/ CreationThrew)
       => /\ Answered
          /\ Carries("action", "issue_creation_failed")
          /\ Carries("success", FALSE)
  /\ CreationReturnedFailure
       => /\ Carries("error", jiraResult.error)
          /\ \E text \in {jiraResult.error, jiraResult.response} :
               /\ text \notin {NoMessage, JsNull, ""}
               /\ Carries("message",
                          Text("I encountered an issue while creating your Jira ticket. The error was: "
                                 \o text \o ". Would you like to try again?"))
  /\ CreationThrew
       => /\ Carries("error", "Error: " \o jiraResult.error)
          /\ Carries("message",
                     Text("Failed to create Jira issue: Error: "
                            \o jiraResult.error))

C16_Witness_ReturnedFailure ==
  /\ CreationReturnedFailure
  /\ jiraResult.error = "Zapier execution failed with status: FAILED"
  /\ TheResponse.status = 200

C16_Witness_Thrown ==
  /\ CreationThrew
  /\ jiraResult.error = "Failed to create Jira issue: Error: socket hang up"
  /\ TheResponse.status = 500

\* The completion call of the request has settled and the required-field
\* check has passed on what validateExtractedParameters returned.
CompletionFinishedAndChecked ==
  /\ completionCalls = 1
  /\ "completion" \notin inFlight
  /\ completion # NotAsked
  /\ validated.ran /\ ~validated.threw
  /\ validateRequiredParameters(validated.value, RequiredThreshold).isValid

\* C17: in one request the completion capability is called at most once
\* and createJiraIssue at most once, whatever they answer; createJiraIssue
\* is called only after the completion call has settled and the
\* required-field check has passed; the two calls are never pending at the
\* same time.
C17_OneCompletionThenOneCreation ==
  /\ completionCalls <= 1
  /\ calls.creation <= 1
  /\ ~({"completion", "creation"} \subseteq inFlight)
  /\ (calls.creation > 0 \/ "creation" \in inFlight)
       => CompletionFinishedAndChecked

C17_Witness_CreationAfterFailedCompletion ==
  /\ pc = "done"
  /\ completion.kind = "rejects"
  /\ completionCalls = 1
  /\ calls.creation = 1
  /\ jiraResult.threw
  /\ inFlight = {}

\* C18: every request is answered, and answered once: no request has more
\* than one response, and a request that was received comes to its end
\* with exactly one.
C18_EveryRequestAnsweredOnce ==
  /\ [](Len(responses) <= 1)
  /\ [](pc = "done" => Answered)
  /\ (pc = "received") ~> (pc = "done" /\ Answered)

\* The request whose creation details cannot be printed ends with the
\* response of the handler's catch.
C18_Witness_UnexpectedErrorAnswered ==
  /\ pc = "done"
  /\ result.action = "create_issue"
  /\ calls.creation = 0
  /\ Answered
  /\ TheResponse = InternalServerError("TypeError: issueData.description.substring is not a function")

\* The response answers a prompt processUserInput has processed and
\* reports a failure: the action error, a creation or a search that
\* failed, or the 500 of the handler's catch.
ErrorResponse ==
  /\ Answered
  /\ calls.processUserInput = 1
  /\ \/ TheResponse.status = 500
     \/ /\ "action" \in DOMAIN TheResponse.body
        /\ TheResponse.body.action
             \in {"error", "issue_creation_failed", "search_failed"}

\* The history h holds the prompt as a user message and the message m as
\* an assistant message.
Reconstructed(h, m) ==
  /\ \E i \in 1..Len(h) : h[i].role = "user" /\ h[i].content = prompt
  /\ \E i \in 1..Len(h) : h[i].role = "assistant" /\ h[i].content = m

\* C19: every error response for a processed prompt carries a message and
\* a conversationHistory that holds the user's prompt and the assistant
\* message that describes the outcome.
C19_ErrorResponsesCarryHistory ==
  ErrorResponse
    => /\ "message" \in DOMAIN TheResponse.body
       /\ "conversationHistory" \in DOMAIN TheResponse.body
       /\ Reconstructed(TheResponse.body.conversationHistory,
                        TheResponse.body.message)

\* A creation that threw is answered with a history that holds the prompt
\* alone.
C19_Witness_ThrownCreationWithoutAssistantMessage ==
  /\ CreationThrew
  /\ Carries("action", "issue_creation_failed")
  /\ Carries("conversationHistory",
             <<[role |-> "user", content |-> prompt]>>)

\* The handler has validated the body of a POST request.
PastValidation == request.method = "POST" /\ pc \notin {"idle", "received"}

\* C20: a POST request without a body, without a prompt, with a prompt
\* that is no string, is empty or blank, or is longer than 5000 characters
\* is answered with 400 'Bad Request', and nothing else happens for it: no
\* service is initialized, processUserInput is not called, and no
\* completion, search or creation call is made.  A prompt of exactly 5000
\* characters is accepted.
C20_InvalidPromptRejectedBeforeCore ==
  /\ (PastValidation /\ request.body \in InvalidBodies)
       => /\ Answered
          /\ TheResponse.status = 400
          /\ Carries("error", "Bad Request")
          /\ calls = NoCalls
          /\ completionCalls = 0
          /\ zapierService = NoService
          /\ inFlight = {}
          /\ history = <<>>
  /\ (PastValidation /\ request.body = Body(Str(Padded(MaxPromptLength))))
       => /\ prompt = U_Hello
          /\ Answered => TheResponse.status # 400
          /\ pc = "done" /\ zapierService.assigned
               => calls.processUserInput = 1

C20_Witness_TooLongRejected ==
  /\ pc = "done"
  /\ request.body.present
  /\ IsString(request.body.prompt)
  /\ Len(request.body.prompt.s) = MaxPromptLength + 1
  /\ Carries("message",
             Text("The \"prompt\" field cannot exceed 5000 characters"))

(***************************************************************************)
(* A conversation of several turns.  A caller that keeps one               *)
(* ConversationState passes it to processUserInput with each utterance;    *)
(* it may call resetConversationState between two turns.  The request      *)
(* handler is left where it is.                                            *)
(***************************************************************************)
U_Yes == <<"y","e","s">>
U_No == <<"n","o">>
U_CancelThat == <<"c","a","n","c","e","l"," ","t","h","a","t">>
U_Eng == <<"e","n","g">>
U_Bug == <<"b","u","g">>
U_LoginFails == <<"L","o","g","i","n"," ","b","u","t","t","o","n"," ","f","a","i","l","s">>
U_Skip == <<"s","k","i","p">>
U_High == <<"h","i","g","h">>
U_Hm == <<"h","m">>
U_NoDoNotCreate == <<"n","o",","," ","d","o"," ","n","o","t"," ","c","r","e","a","t","e"," ","i","t">>

\* The utterances of a conversation: four that open it and the answers to
\* the questions of the traditional flow and of the confirmation, one of
\* them with a negative and an affirmative word.
ConversationUtterances ==
  {U_NewIssue, U_ReadmeBug, U_Hello, U_FindIssues,
   U_Yes, U_No, U_CancelThat, U_Eng, U_Bug, U_LoginFails, U_Skip, U_High,
   U_Hm, U_NoDoNotCreate}

\* The completions of a conversation: one that rejects, the README's, one
\* without a description, and three with a value that is no string: a
\* project that is a number, a title that cannot be printed and a priority
\* that is an object.
ConversationCompletions ==
  {OtherCompletion("rejects"), ReadmeCompletion,
   JsonCompletion(RawParam(UnprintableObject, 90), RawParam(Str(S_Task), 90),
                  RawParam(Str(S_FVEngineering), 90),
                  RawParam(Str(S_High), 90), ValidDescription),
   JsonCompletion(ValidTitle, RawParam(Str(S_Task), 90),
                  RawParam(Str(S_FVEngineering), 90),
                  RawParam(PlainObject, 90), ValidDescription),
   JsonCompletion(ValidTitle, RawParam(Str(S_Task), 90),
                  RawParam(Number42, 90), RawParam(Str(S_High), 90),
                  ValidDescription),
   JsonCompletion(ValidTitle, RawParam(Str(S_Task), 90),
                  RawParam(Str(S_FVEngineering), 90),
                  RawParam(Str(S_High), 90), AbsentParam)}

\* One turn: processUserInput on the state the turn before left.
Turn ==
  /\ pc = "idle"
  /\ \E userInput \in ConversationUtterances :
       \E c \in IF AsksCompletion(userInput, state)
                THEN ConversationCompletions ELSE {NotAsked} :
         \E o \in {processUserInput(userInput, state, c)} :
           /\ prompt' = userInput
           /\ completion' = c
           /\ state' = o.state
           /\ result' = o.result
           /\ completionCalls' = o.completionCalls
           /\ extracted' = o.extracted
           /\ validated' = o.validated
  /\ UNCHANGED <<pc, request, serviceVars, history, responses>>
  /\ UNCHANGED lexical

\* resetConversationState, which the caller may call after any turn; what
\* the turn returned is dropped with it.
ResetConversationState ==
  /\ pc = "idle"
  /\ state # InitialState
  /\ state' = resetState(state)
  /\ prompt' = <<>>
  /\ completion' = NotAsked
  /\ result' = Result("none", NoMessage, Undefined)
  /\ completionCalls' = 0
  /\ extracted' = NotRun
  /\ validated' = NotRun
  /\ UNCHANGED <<pc, request, serviceVars, history, responses>>
  /\ UNCHANGED lexical

ConversationNext == Turn \/ ResetConversationState

ConversationSpec == Init /\ [][ConversationNext]_vars

\* The steps of the traditional flow.
FlowSteps ==
  {askOrder[i].step : i \in 1..Len(askOrder)} \cup {"CONFIRMING_DETAILS"}

\* Whether processUserInput has returned in the conversation.
HasReturned == prompt # <<>>

\* C15: processUserInput never throws, whatever the conversation state, the
\* utterance and the completion are: it returns one of its six actions.  A
\* turn in which the extraction or the validation threw ends in the
\* traditional flow, with action 'continue', a question and the step of the
\* question; a turn whose required-field check failed ends in action
\* 'error'; and every 'error' carries a message.
C15_ProcessUserInputNeverThrows ==
  HasReturned =>
    /\ result.action \in {"continue", "create_issue", "search", "cancel",
                          "regular_chat", "error"}
    /\ (extracted.threw \/ validated.threw) =>
         /\ result.action = "continue"
         /\ result.message \notin {NoMessage, ""}
         /\ state.isCreatingIssue
         /\ state.currentStep \in FlowSteps
    /\ ( /\ validated.ran
         /\ ~validated.threw
         /\ ~validateRequiredParameters(validated.value,
                                        RequiredThreshold).isValid )
         => result.action = "error"
    /\ result.action = "error" => result.message \notin {NoMessage, ""}

\* A completion whose project is a number made the validation throw, and
\* the turn asked the first question of the traditional flow.
C15_Witness_ThrowEndsInTraditionalFlow ==
  /\ completion.kind = "json"
  /\ completion.project.value = Number42
  /\ validated.threw
  /\ result.action = "continue"
  /\ state.currentStep = "ASKING_PROJECT"

\* A later turn of the traditional flow refused an answer and asked again.
C15_Witness_AnswerRefused ==
  /\ state.isCreatingIssue
  /\ completionCalls = 0
  /\ state.currentStep = "ASKING_TYPE"
  /\ prompt = U_Hm
  /\ result.action = "continue"

(***************************************************************************)
(* The lexical extractor and the validator called on their own, apart from *)
(* a request: each action calls one function with one argument.            *)
(***************************************************************************)
\* Create a bug called 'API Error'
U_ApiErrorSingle == <<"C","r","e","a","t","e"," ","a"," ","b","u","g"," ","c","a","l","l","e","d"," ","'","A","P","I"," ","E","r","r","o","r","'">>
\* Create a bug called "API Error"
U_ApiErrorDouble == <<"C","r","e","a","t","e"," ","a"," ","b","u","g"," ","c","a","l","l","e","d"," ","\"","A","P","I"," ","E","r","r","o","r","\"">>
\* in Infrastructure for ABC project
U_LongKeyThenProject == <<"i","n"," ","I","n","f","r","a","s","t","r","u","c","t","u","r","e"," ","f","o","r"," ","A","B","C"," ","p","r","o","j","e","c","t">>
\* create something new bug
U_CreateSomethingNewBug == <<"c","r","e","a","t","e"," ","s","o","m","e","t","h","i","n","g"," ","n","e","w"," ","b","u","g">>
\* create issue or new bug
U_CreateIssueNewBug == <<"c","r","e","a","t","e"," ","i","s","s","u","e"," ","o","r"," ","n","e","w"," ","b","u","g">>
\* create a ticket then report a bug
U_CreateTicketReportBug == <<"c","r","e","a","t","e"," ","a"," ","t","i","c","k","e","t"," ","t","h","e","n"," ","r","e","p","o","r","t"," ","a"," ","b","u","g">>
\* high priority, priority is urgent
U_HighThenUrgent == <<"h","i","g","h"," ","p","r","i","o","r","i","t","y",","," ","p","r","i","o","r","i","t","y"," ","i","s"," ","u","r","g","e","n","t">>
\* priority is blah
U_PriorityBlah == <<"p","r","i","o","r","i","t","y"," ","i","s"," ","b","l","a","h">>
\* this is urgent and critical
U_UrgentCritical == <<"t","h","i","s"," ","i","s"," ","u","r","g","e","n","t"," ","a","n","d"," ","c","r","i","t","i","c","a","l">>
\* new task in DEMO project
U_NewTaskDemo == <<"n","e","w"," ","t","a","s","k"," ","i","n"," ","D","E","M","O"," ","p","r","o","j","e","c","t">>
\* please log a story
U_LogStory == <<"p","l","e","a","s","e"," ","l","o","g"," ","a"," ","s","t","o","r","y">>
\* new feature for the ENG project
U_NewFeature == <<"n","e","w"," ","f","e","a","t","u","r","e"," ","f","o","r"," ","t","h","e"," ","E","N","G"," ","p","r","o","j","e","c","t">>

\* The utterances extractExplicitInformation is called with: the ones of
\* the requests and the ones above, in which a pattern of a family matches
\* before another one.
LexicalUtterances ==
  Utterances \cup
  {U_ApiErrorSingle, U_ApiErrorDouble, U_LongKeyThenProject,
   U_CreateSomethingNewBug, U_CreateIssueNewBug, U_CreateTicketReportBug,
   U_HighThenUrgent, U_PriorityBlah, U_UrgentCritical,
   U_NewTaskDemo, U_LogStory, U_NewFeature}

Called(fn, input, output) == [fn |-> fn, input |-> input, output |-> output]

handlerVars == <<pc, request, coreVars, serviceVars, history, responses>>

ExtractExplicitInformation ==
  /\ \E userInput \in LexicalUtterances :
       lexical' = Called("extractExplicitInformation", userInput,
                         extractExplicitInformation(userInput))
  /\ UNCHANGED handlerVars

S_APIError == <<"A","P","I"," ","E","r","r","o","r">>

\* C21: for the utterance Create a bug called 'API Error'
\* extractExplicitInformation returns the issue type 'Bug' and the title
\* 'API Error'.
C21_TypeAndQuotedTitleRecovered ==
  ( /\ lexical.fn = "extractExplicitInformation"
    /\ lexical.input = U_ApiErrorSingle )
    => /\ lexical.output.issueType = Str(S_Bug)
       /\ lexical.output.title = Str(S_APIError)

\* The utterance was read: the type is 'Bug' and there is no title, the
\* title being between single quotes.
C21_Witness_SingleQuotedTitleLost ==
  /\ lexical.fn = "extractExplicitInformation"
  /\ lexical.input = U_ApiErrorSingle
  /\ lexical.output.issueType = Str(S_Bug)
  /\ lexical.output.title = Undefined

\* The same utterance with double quotes gives both.
C21_Witness_DoubleQuotedTitleFound ==
  /\ lexical.fn = "extractExplicitInformation"
  /\ lexical.input = U_ApiErrorDouble
  /\ lexical.output.issueType = Str(S_Bug)
  /\ lexical.output.title = Str(S_APIError)

\* The words normalizeIssueType is called with: the four types in several
\* cases and words that are no type.
TypeWords ==
  {<<"b","u","g">>, <<"B","u","g">>, <<"B","U","G">>,
   <<"t","a","s","k">>, <<"S","t","o","r","y">>, <<"E","P","I","C">>,
   <<"f","e","a","t","u","r","e">>, <<"F","e","a","t","u","r","e">>, <<"i","m","p","r","o","v","e","m","e","n","t">>,
   <<"i","s","s","u","e">>, <<"b","u","g"," ">>, <<>>,
   <<"s","u","b","-","t","a","s","k">>, <<"x">>}

\* The words normalizePriority is called with: every synonym of its
\* switch, some in another case, and words that are no priority.
PriorityWords ==
  {<<"l","o","w","e","s","t">>, <<"v","e","r","y"," ","l","o","w">>, <<"t","r","i","v","i","a","l">>,
   <<"l","o","w">>, <<"m","i","n","o","r">>, <<"m","e","d","i","u","m">>,
   <<"n","o","r","m","a","l">>, <<"s","t","a","n","d","a","r","d">>, <<"h","i","g","h">>,
   <<"i","m","p","o","r","t","a","n","t">>, <<"u","r","g","e","n","t">>, <<"m","a","j","o","r">>,
   <<"h","i","g","h","e","s","t">>, <<"c","r","i","t","i","c","a","l">>, <<"b","l","o","c","k","e","r">>,
   <<"s","e","v","e","r","e">>, <<"H","i","g","h">>, <<"U","R","G","E","N","T">>,
   <<"L","o","w","e","s","t">>, <<"b","l","a","h">>, <<"B","l","a","h">>,
   <<"p","1">>, <<"a","s","a","p">>, <<>>,
   <<"v","e","r","y"," ","h","i","g","h">>}

NormalizeIssueType ==
  /\ \E type \in TypeWords :
       lexical' = Called("normalizeIssueType", type,
                         Str(normalizeIssueType(type)))
  /\ UNCHANGED handlerVars

NormalizePriority ==
  /\ \E priority \in PriorityWords :
       lexical' = Called("normalizePriority", priority,
                         Str(normalizePriority(priority)))
  /\ UNCHANGED handlerVars

\* C22: normalizeIssueType and normalizePriority return only a member of
\* their vocabulary, also where extractExplicitInformation calls them, and
\* normalizing what they returned returns it again.
C22_NormalizersAreClosedAndIdempotent ==
  /\ lexical.fn = "normalizeIssueType" =>
       /\ lexical.output.s \in validTypes
       /\ normalizeIssueType(lexical.output.s) = lexical.output.s
  /\ lexical.fn = "normalizePriority" =>
       /\ lexical.output.s \in validPriorities
       /\ normalizePriority(lexical.output.s) = lexical.output.s
  /\ lexical.fn = "extractExplicitInformation" =>
       /\ lexical.output.issueType \in
            {Undefined} \cup {Str(t) : t \in validTypes}
       /\ lexical.output.priority \in
            {Undefined} \cup {Str(p) : p \in validPriorities}

\* The part of C22 that holds: normalizing twice gives what normalizing
\* once gives.
NormalizersAreIdempotent ==
  /\ lexical.fn = "normalizeIssueType" =>
       normalizeIssueType(lexical.output.s) = lexical.output.s
  /\ lexical.fn = "normalizePriority" =>
       normalizePriority(lexical.output.s) = lexical.output.s

\* extractExplicitInformation read 'priority is blah' and returned the
\* priority 'Blah', which normalizePriority passed through capitalised.
C22_Witness_UnknownPriorityPassedThrough ==
  /\ lexical.fn = "extractExplicitInformation"
  /\ lexical.input = U_PriorityBlah
  /\ lexical.output.priority = Str(<<"B","l","a","h">>)

\* normalizeIssueType('feature') returned 'Feature'.
C22_Witness_UnknownTypePassedThrough ==
  /\ lexical.fn = "normalizeIssueType"
  /\ lexical.input = <<"f","e","a","t","u","r","e">>
  /\ lexical.output = Str(<<"F","e","a","t","u","r","e">>)


\* The keywords of the README's "Supported Projects", each with the
\* project it is listed under.
readmeKeywords == <<
  [key |-> <<"d","e","m","o">>,
   value |-> S_FVDemoIssues],
  [key |-> <<"i","s","s","u","e","s">>,
   value |-> S_FVDemoIssues],
  [key |-> <<"f","v"," ","d","e","m","o"," ","i","s","s","u","e","s">>,
   value |-> S_FVDemoIssues],
  [key |-> <<"d","e","m","o"," ","p","r","o","d","u","c","t">>,
   value |-> S_FVDemoProduct],
  [key |-> <<"f","v"," ","d","e","m","o"," ","p","r","o","d","u","c","t">>,
   value |-> S_FVDemoProduct],
  [key |-> <<"e","n","g","i","n","e","e","r","i","n","g">>,
   value |-> S_FVEngineering],
  [key |-> <<"e","n","g">>,
   value |-> S_FVEngineering],
  [key |-> <<"f","v"," ","e","n","g","i","n","e","e","r","i","n","g">>,
   value |-> S_FVEngineering],
  [key |-> <<"p","r","o","d","u","c","t">>,
   value |-> S_FVProduct],
  [key |-> <<"f","v"," ","p","r","o","d","u","c","t">>,
   value |-> S_FVProduct] >>

ReadmeKeywordSet == {readmeKeywords[i].key : i \in 1..Len(readmeKeywords)}

\* The project of a keyword of the README.
ReadmeProject(key) ==
  readmeKeywords[CHOOSE i \in 1..Len(readmeKeywords) :
                   readmeKeywords[i].key = key].value

\* What else names a project: other spellings, codes, and texts that name
\* none.
ProjectWords ==
  {<<"D","e","m","o"," ","P","r","o","d","u","c","t">>, <<"E","N","G">>,
   <<"F","V"," ","P","r","o","d","u","c","t">>, <<"f","v"," ","d","e","m","o"," ","(","p","r","o","d","u","c","t",")">>,
   <<"d","p","d">>, <<"p","r","o","d">>,
   <<"f","v">>, <<"m","a","r","k","e","t","i","n","g">>,
   <<"u","s","e"," ","t","h","e"," ","A","B","C"," ","b","o","a","r","d">>, <<"F","V"," ","D","e","m","o"," ","(","I","s","s","u","e","s",")">>,
   <<"p","r","o","d","u","c","t"," ","d","e","m","o">>, <<"f","a","n","v","o","i","c","e"," ","e","n","g","i","n","e","e","r","i","n","g">>,
   <<"t","h","e"," ","e","n","g","i","n","e","e","r","i","n","g"," ","o","n","e">>, <<"f","v"," ","e","n","g">>,
   <<"n","o","n","e"," ","o","f"," ","t","h","e","m">>, <<"D","P","I"," ","p","l","e","a","s","e">>}

ExtractProjectFromResponse ==
  /\ \E userInput \in ReadmeKeywordSet \cup ProjectWords :
       lexical' = Called("extractProjectFromResponse", userInput,
                         extractProjectFromResponse(userInput))
  /\ UNCHANGED handlerVars

\* validateExtractedParameters on an extraction whose project the
\* completion gave; the output is the project value afterwards.
ValidateExtractedProject ==
  /\ \E project \in ReadmeKeywordSet \cup ProjectWords :
       \E checked \in
          {validateExtractedParameters(
             [createEmptyExtraction EXCEPT
                !.project = ExtractedParameter(Str(project), 90,
                                               "ai_extracted")])} :
         lexical' = Called("validateExtractedParameters", project,
                           IF checked.threw THEN Undefined
                           ELSE checked.value.project.value)
  /\ UNCHANGED handlerVars

\* C23: each keyword of the README gives the project it is listed under,
\* in validateExtractedParameters and in extractProjectFromResponse.
C23_ReadmeKeywordsResolve ==
  ( /\ lexical.fn \in {"validateExtractedParameters",
                       "extractProjectFromResponse"}
    /\ lexical.input \in ReadmeKeywordSet )
    => lexical.output = Str(ReadmeProject(lexical.input))

\* The keywords that do resolve as listed: all but 'product' in
\* validateExtractedParameters, all but 'demo product' and
\* 'fv demo product' in extractProjectFromResponse.
ReadmeKeywordsResolveButThree ==
  /\ ( /\ lexical.fn = "validateExtractedParameters"
       /\ lexical.input \in ReadmeKeywordSet \ {<<"p","r","o","d","u","c","t">>} )
       => lexical.output = Str(ReadmeProject(lexical.input))
  /\ ( /\ lexical.fn = "extractProjectFromResponse"
       /\ lexical.input \in ReadmeKeywordSet
                              \ {<<"d","e","m","o"," ","p","r","o","d","u","c","t">>,
                                 <<"f","v"," ","d","e","m","o"," ","p","r","o","d","u","c","t">>} )
       => lexical.output = Str(ReadmeProject(lexical.input))

\* extractProjectFromResponse('demo product') returned 'FV Demo (Issues)'.
C23_Witness_DemoProductIsIssues ==
  /\ lexical.fn = "extractProjectFromResponse"
  /\ lexical.input = <<"d","e","m","o"," ","p","r","o","d","u","c","t">>
  /\ lexical.output = Str(S_FVDemoIssues)

\* validateExtractedParameters replaced 'product' by 'FV Demo (Issues)'.
C23_Witness_ProductIsDefault ==
  /\ lexical.fn = "validateExtractedParameters"
  /\ lexical.input = <<"p","r","o","d","u","c","t">>
  /\ lexical.output = Str(S_FVDemoIssues)


ExtractorNext ==
  \/ ExtractExplicitInformation
  \/ NormalizeIssueType
  \/ NormalizePriority
  \/ ExtractProjectFromResponse
  \/ ValidateExtractedProject

ExtractorSpec == Init /\ [][ExtractorNext]_vars

\* The edges of the steps: DETECTING_INTENT -> AI_EXTRACTING -> the
\* steps of the traditional flow -> READY_TO_CREATE, the steps of the
\* traditional flow among themselves, and a reset from anywhere.
StepEdges ==
  {<<"DETECTING_INTENT", "AI_EXTRACTING">>}
    \cup {<<"AI_EXTRACTING", s>> : s \in FlowSteps}
    \cup (FlowSteps \X FlowSteps)
    \cup {<<s, "READY_TO_CREATE">> : s \in FlowSteps}
    \cup {<<s, "DETECTING_INTENT">> :
            s \in FlowSteps \cup {"AI_EXTRACTING", "READY_TO_CREATE"}}

\* Every change of currentStep in a turn follows one edge or two in a row.
StepChangesFollowEdges ==
  [][state'.currentStep # state.currentStep =>
       \E e \in StepEdges :
         /\ e[1] = state.currentStep
         /\ \/ e[2] = state'.currentStep
            \/ \E f \in StepEdges :
                 f[1] = e[2] /\ f[2] = state'.currentStep]_vars

\* C24: whenever processUserInput has returned 'create_issue', currentStep
\* is READY_TO_CREATE.
C24_CreationOnlyFromReadyToCreate ==
  (HasReturned /\ result.action = "create_issue")
    => state.currentStep = "READY_TO_CREATE"

\* The AI-assisted turn of the README's prompt returned 'create_issue' and
\* left currentStep at AI_EXTRACTING.
C24_Witness_CreatedAtAiExtracting ==
  /\ prompt = U_ReadmeBug
  /\ completion = ReadmeCompletion
  /\ result.action = "create_issue"
  /\ state.currentStep = "AI_EXTRACTING"

\* 'yes' at the confirmation returned 'create_issue' and left currentStep
\* at CONFIRMING_DETAILS.
C24_Witness_CreatedAtConfirmation ==
  /\ prompt = U_Yes
  /\ result.action = "create_issue"
  /\ state.currentStep = "CONFIRMING_DETAILS"

\* currentStep is never READY_TO_CREATE.
NeverReadyToCreate == state.currentStep # "READY_TO_CREATE"

\* C25: in a state that is creating an issue, whatever its step, a turn
\* with a cancellation utterance returns 'cancel' without a completion
\* call and leaves the initial state: nothing of the utterance is in
\* issueData or hasAskedFor.
C25_CancellationComesFirst ==
  [][( /\ state.isCreatingIssue
       /\ prompt' # <<>>
       /\ checkForCancellation(prompt') )
       => /\ result'.action = "cancel"
          /\ completionCalls' = 0
          /\ state' = InitialState
          /\ state'.issueData = EmptyIssueData
          /\ state'.hasAskedFor = {}]_vars

\* 'cancel that' was said in a conversation that was creating an issue (no
\* other turn returns 'cancel' for it): the state is the initial one.
C25_Witness_CancelledInFlow ==
  /\ prompt = U_CancelThat
  /\ result.action = "cancel"
  /\ completionCalls = 0
  /\ state = InitialState

\* Whether one of the words occurs in the text as a word of its own.
HasToken(lowerInput, tokens) ==
  \E t \in tokens : \E i \in 1..Len(lowerInput) :
    /\ MatchesAt(lowerInput, t, i)
    /\ WordBoundary(lowerInput, i)
    /\ WordBoundary(lowerInput, i + Len(t))

Confirming == state.isCreatingIssue /\ state.currentStep = "CONFIRMING_DETAILS"

\* C26: at the confirmation, with or without extractedParameters, a turn
\* whose utterance has a negative word (no, cancel) never returns
\* 'create_issue'; with an affirmative word (yes, confirm, create) and no
\* negative one it returns 'create_issue'; with a negative and no
\* affirmative one it returns 'cancel' and leaves the initial state; with
\* neither it returns 'continue' with a message and leaves the state as it
\* was.
C26_ConfirmationReadsYesAndNo ==
  [][(Confirming /\ prompt' # <<>>) =>
       \E l \in {ToLowerCase(prompt')} :
         \E yes \in {HasToken(l, affirmativeTokens)} :
           \E no \in {HasToken(l, negativeTokens)} :
             /\ no => result'.action # "create_issue"
             /\ (yes /\ ~no) => result'.action = "create_issue"
             /\ (no /\ ~yes) =>
                  result'.action = "cancel" /\ state' = InitialState
             /\ (~yes /\ ~no) =>
                  /\ result'.action = "continue"
                  /\ result'.message \notin {NoMessage, ""}
                  /\ state' = state]_vars

\* C26 without its last sentence: an utterance with words of both kinds is
\* left out.
ConfirmationReadsYesOrNo ==
  [][(Confirming /\ prompt' # <<>>) =>
       \E l \in {ToLowerCase(prompt')} :
         \E yes \in {HasToken(l, affirmativeTokens)} :
           \E no \in {HasToken(l, negativeTokens)} :
             /\ (yes /\ ~no) => result'.action = "create_issue"
             /\ (no /\ ~yes) =>
                  result'.action = "cancel" /\ state' = InitialState
             /\ (~yes /\ ~no) =>
                  /\ result'.action = "continue"
                  /\ result'.message \notin {NoMessage, ""}
                  /\ state' = state]_vars

\* 'no, do not create it' at the confirmation of an extraction returned
\* 'create_issue'.
C26_Witness_NoCreatesTheIssue ==
  /\ prompt = U_NoDoNotCreate
  /\ Confirming
  /\ state.extractedParameters.set
  /\ result.action = "create_issue"

\* The same at the confirmation of the traditional flow.
C26_Witness_NoCreatesWithoutExtraction ==
  /\ prompt = U_NoDoNotCreate
  /\ Confirming
  /\ ~state.extractedParameters.set
  /\ result.action = "create_issue"

\* The place in askOrder of the field a step asks, 0 for another step.
AskedAt(step) ==
  IF \E i \in 1..Len(askOrder) : askOrder[i].step = step
  THEN CHOOSE i \in 1..Len(askOrder) : askOrder[i].step = step
  ELSE 0

Known(st, i) == st.issueData[askOrder[i].key] # Undefined

\* C27: in the traditional flow the step ASKING_X is the step of the first
\* field, in the order project, type, title, description, priority, that
\* issueData does not hold, and X is in hasAskedFor; a question returned
\* with 'continue' is the question of that step; and at the confirmation
\* all five fields are known.
C27_OneFieldAskedInOrder ==
  /\ \E i \in {AskedAt(state.currentStep)} :
       i > 0 =>
         /\ state.isCreatingIssue
         /\ askOrder[i].field \in state.hasAskedFor
         /\ ~Known(state, i)
         /\ \A j \in 1..(i - 1) : Known(state, j)
  /\ ( /\ HasReturned
       /\ result.action = "continue"
       /\ result.message \in {getQuestionForStep(s) : s \in FlowSteps} )
       => result.message = getQuestionForStep(state.currentStep)
  /\ Confirming => \A j \in 1..Len(askOrder) : Known(state, j)
  /\ state.hasAskedFor \subseteq {askOrder[i].field : i \in 1..Len(askOrder)}

\* The type was asked after the project was answered: both are in
\* hasAskedFor, the project is known and the type is not.
C27_Witness_TypeAskedAfterProject ==
  /\ state.currentStep = "ASKING_TYPE"
  /\ state.hasAskedFor = {"project", "type"}
  /\ state.issueData.project = Str(S_FVEngineering)
  /\ state.issueData.issueType = Undefined
  /\ result.message = getQuestionForStep("ASKING_TYPE")

\* All five fields were answered one after the other and the confirmation
\* is asked.
C27_Witness_ConfirmationAfterFiveAnswers ==
  /\ Confirming
  /\ ~state.extractedParameters.set
  /\ state.hasAskedFor =
       {"project", "type", "title", "description", "priority"}
  /\ result.message = getQuestionForStep("CONFIRMING_DETAILS")

\* A field of the utterance that opened the flow was skipped: the title is
\* asked and the type was never asked.
C27_Witness_KnownFieldSkipped ==
  /\ state.currentStep = "ASKING_TITLE"
  /\ "type" \notin state.hasAskedFor
  /\ state.issueData.issueType # Undefined

\* Whether the utterance carries one of the two labels.
Labelled(userInput) ==
  Includes(userInput, S_TitleColon) \/ Includes(userInput, S_DescriptionColon)

\* What the patch may do to the parsed completion: leave the type, the
\* project and the priority, leave a title or a description that has a
\* value, and put in place of one without a value what the fallback found,
\* with confidence 0.9 and source 'ai_extracted', when the utterance is
\* labelled.
PatchedAsStated(userInput, parsed, fallback, patched) ==
  /\ \A f \in {"type", "project", "priority"} : patched[f] = parsed[f]
  /\ \A f \in {"title", "description"} :
       IF /\ Labelled(userInput)
          /\ parsed[f].value = Null
          /\ Truthy(fallback[f].value)
       THEN patched[f] = ExtractedParameter(fallback[f].value,
                                            FallbackConfidence,
                                            "ai_extracted")
       ELSE patched[f] = parsed[f]

\* C28: when processUserInput returns in a request whose completion was
\* parsed, the patch step changed only a title or a description the parsed
\* completion left null, to the value of the lexical fallback with
\* confidence 0.9 and source 'ai_extracted'; and what extractParameters
\* returned holds the patched title and description.
C28_PatchFillsOnlyNullFields ==
  (pc = "processed" /\ extracted.ran /\ completion.kind = "json") =>
    \E parsed \in {parseAIResponse(completion)} :
      \E patched \in {patchFromFallback(prompt, parsed)} :
        /\ PatchedAsStated(prompt, parsed, fallbackExtraction(prompt),
                           patched)
        /\ ~logExtractionResultsThrows(applyDefaults(patched)) =>
             /\ extracted.value.title = patched.title
             /\ extracted.value.description = patched.description

\* The utterance is labelled, the completion gave a description and no
\* title: the title is the one after 'Title:', with confidence 0.9, and the
\* description is the completion's.
C28_Witness_TitlePatchedDescriptionKept ==
  /\ Labelled(prompt)
  /\ completion.kind = "json"
  /\ completion.title = AbsentParam
  /\ completion.description = ValidDescription
  /\ extracted.ran
  /\ extracted.value.title.value # Null
  /\ extracted.value.title.confidence = FallbackConfidence
  /\ extracted.value.description.value = Str(V_UsersCannot)
  /\ extracted.value.description.confidence = 95

\* A pattern family that ends at its first matching pattern, whether or not
\* the match is kept: the capture of the first pattern that matches.
FirstMatch(m) ==
  LET I == {i \in 1..Len(m) : m[i].found}
  IN IF I = {} THEN [found |-> FALSE, cap |-> <<>>] ELSE m[Min(I)]

specificTypeWords == typeWords \ genericTypeWords

\* C29: in extractExplicitInformation each pattern family ends at its first
\* matching pattern: the project is the key the first matching project
\* pattern captured, or none when that key is longer than 10 characters;
\* the type is the word the first matching type pattern captured, or none
\* when the word is not bug, task, story or epic; the priority is the word
\* the first matching priority pattern captured.
C29_FamiliesStopAtFirstMatch ==
  lexical.fn = "extractExplicitInformation" =>
    \E p \in {FirstMatch(<<projectPattern1(lexical.input),
                           projectPattern2(lexical.input)>>)},
       t \in {FirstMatch(typePatterns(lexical.input))},
       q \in {FirstMatch(priorityPatterns(lexical.input))} :
      /\ lexical.output.project =
           IF p.found /\ Len(p.cap) <= MaxProjectKeyLength
           THEN Str(ToUpperCase(p.cap)) ELSE Undefined
      /\ lexical.output.issueType =
           IF t.found /\ ToLowerCase(t.cap) \in specificTypeWords
           THEN Str(normalizeIssueType(ToLowerCase(t.cap))) ELSE Undefined
      /\ lexical.output.priority =
           IF q.found THEN Str(normalizePriority(ToLowerCase(q.cap)))
           ELSE Undefined

\* The part of C29 that holds: the priority family ends at its first
\* matching pattern, and a type family whose first kept word is 'issue' or
\* 'ticket' gives no type, whatever a later pattern captures.
PriorityStopsAndGenericWordsGiveNoType ==
  lexical.fn = "extractExplicitInformation" =>
    \E t \in {FirstMatch(typePatterns(lexical.input))},
       q \in {FirstMatch(priorityPatterns(lexical.input))} :
      /\ lexical.output.priority =
           IF q.found THEN Str(normalizePriority(ToLowerCase(q.cap)))
           ELSE Undefined
      /\ (t.found /\ ToLowerCase(t.cap) \in genericTypeWords) =>
           lexical.output.issueType = Undefined
      /\ lexical.output.issueType \notin
           {Str(<<"I","s","s","u","e">>), Str(<<"T","i","c","k","e","t">>)}

\* 'in Infrastructure for ABC project' was read: the first project pattern
\* matched a key of 14 characters, and the project is the 'ABC' of the
\* second pattern.
C29_Witness_SecondProjectPatternTried ==
  /\ lexical.fn = "extractExplicitInformation"
  /\ lexical.input = U_LongKeyThenProject
  /\ projectPattern1(lexical.input).found
  /\ Len(projectPattern1(lexical.input).cap) > MaxProjectKeyLength
  /\ lexical.output.project = Str(<<"A","B","C">>)

\* 'create something new bug' was read: the first type pattern captured
\* 'something', and the type is the 'Bug' of the second pattern.
C29_Witness_SecondTypePatternTried ==
  /\ lexical.fn = "extractExplicitInformation"
  /\ lexical.input = U_CreateSomethingNewBug
  /\ typePatterns(lexical.input)[1].found
  /\ lexical.output.issueType = Str(S_Bug)

\* 'create issue or new bug' was read: the first type pattern captured
\* 'issue' and there is no type, although the second captures 'bug'.
C29_Witness_GenericWordEndsTheFamily ==
  /\ lexical.fn = "extractExplicitInformation"
  /\ lexical.input = U_CreateIssueNewBug
  /\ typePatterns(lexical.input)[2].found
  /\ lexical.output.issueType = Undefined

\* 'high priority, priority is urgent' was read: the priority is the 'High'
\* of the first pattern.
C29_Witness_FirstPriorityPatternWins ==
  /\ lexical.fn = "extractExplicitInformation"
  /\ lexical.input = U_HighThenUrgent
  /\ priorityPatterns(lexical.input)[2].found
  /\ lexical.output.priority = Str(S_High)

\* The part of C30 that holds: cleanup is called at most once, only on a
\* service whose initialization succeeded and only after a response was
\* sent; when the handler has finished it was called once if the
\* initialization succeeded and not at all if the body was refused or the
\* initialization failed.
CleanupCalledOnceAfterResponse ==
  /\ calls.cleanup <= 1
  /\ calls.cleanup = 1 =>
       /\ zapierService.assigned
       /\ calls.initialize = 1
       /\ Len(responses) = 1
  /\ zapierService.assigned => calls.initialize = 1
  /\ pc = "done" =>
       calls.cleanup = IF zapierService.assigned THEN 1 ELSE 0

\* C30: cleanup is called exactly once, after the response, in every
\* request whose initialization succeeded and in no other, and no request
\* ends with the service still initialised.
C30_CleanupOnceAndServiceReleased ==
  /\ CleanupCalledOnceAfterResponse
  /\ pc = "done" => ~zapierService.isInitialized

\* The handler has finished a request whose initialization succeeded:
\* cleanup was called once, after the response, its disconnection threw,
\* and the service is still initialised.
C30_Witness_DisconnectThrewServiceStillInitialised ==
  /\ pc = "done"
  /\ calls.initialize = 1
  /\ calls.cleanup = 1
  /\ Len(responses) = 1
  /\ zapierService.isInitialized

\* The handler has finished a request whose initialization failed: the 503
\* was sent and cleanup was not called.
C30_Witness_NoCleanupAfterFailedInitialization ==
  /\ pc = "done"
  /\ calls.initialize = 1
  /\ ~zapierService.assigned
  /\ calls.cleanup = 0
  /\ Len(responses) = 1
  /\ responses[1].status = 503

\* The handler has finished a request that created the issue: cleanup was
\* called once and the service is released.
C30_Witness_CleanupAfterCreation ==
  /\ pc = "done"
  /\ calls.creation = 1
  /\ calls.cleanup = 1
  /\ ~zapierService.isInitialized

=============================================================================
